---- MODULE Spec2Model ----
(***************************************************************************)
(* Model of the data access layer of the K-Link dashboard:                 *)
(* utils/database.py, class SmartDatabase (connection, query cache, demo   *)
(* data synthesizer).                                                      *)
(*                                                                         *)
(* One SmartDatabase instance used by one caller.  Every method call is    *)
(* one action; the clock advances between calls (Tick) and every           *)
(* time.time() read made inside one call returns the same instant.         *)
(* A DataFrame is an object on a heap: an identity plus a content, so      *)
(* that DataFrame.copy() and the aliasing of a result can be told apart.   *)
(***************************************************************************)
EXTENDS Integers, Sequences, FiniteSets, TLC

(***************************************************************************)
(* Program constants.                                                      *)
(***************************************************************************)
RateLimit == 5
DefaultTtl == 300
MaxCacheAge == 3600

(***************************************************************************)
(* Bounds of the model.                                                    *)
(***************************************************************************)
\* number of clock advances in one run
MaxTicks == 2
\* number of returned DataFrames the caller still holds (older ones are dropped)
MaxHeld == 2

None == "None"

\* no DataFrame
NoObject == <<"none", 0>>

(***************************************************************************)
(* Query texts.  A text is a sequence of words; the synthesizer only asks  *)
(* whether a lower-cased text contains a needle, so a word is described by *)
(* its lower-cased form and by the needles that occur inside it.           *)
(***************************************************************************)
LowerNothing(w) == w

Lower(w) ==
  CASE w = "SELECT" -> "select"
    [] w = "TODAY" -> "today"
    [] w = "Today" -> "today"
    [] w = "GETDATE()" -> "getdate()"
    [] w = "AS" -> "as"
    [] w = "DATEADD(DAY," -> "dateadd(day,"
    [] w = "TOP 10" -> "top 10"
    [] w = "MsMemb" -> "msmemb"
    [] w = "MONTH(createdt)" -> "month(createdt)"
    [] OTHER -> w

\* the needles of _generate_demo_data that occur in the lower-case word w
NeedlesIn(w) ==
  CASE w = "today" -> {"today"}
    [] w = "newtrh" -> {"newtrh"}
    [] w = "klink_mlm2010.dbo.newtrh" -> {"newtrh"}
    [] w = "yesterday" -> {"yesterday"}
    [] w = "month" -> {"month"}
    [] w = "month(createdt)" -> {"month"}
    [] w = "30 days" -> {"30 days"}
    [] w = "dateadd(day," -> {"dateadd"}
    [] w = "top 10" -> {"top 10"}
    [] w = "stockist" -> {"stockist"}
    [] w = "unique_stockists" -> {"stockist"}
    [] w = "stockist_code" -> {"stockist"}
    [] w = "msmemb" -> {"msmemb"}
    [] w = "jointdt" -> {"jointdt"}
    [] w = "server_time" -> {"server_time"}
    [] OTHER -> {}

\* sql.lower()
SqlLower(sql) == [i \in 1..Len(sql) |-> Lower(sql[i])]

\* needle in sql_lower
Contains(sql_lower, needle) ==
  \E i \in 1..Len(sql_lower) : needle \in NeedlesIn(sql_lower[i])

(***************************************************************************)
(* DataFrame contents: ordered column names and ordered rows.              *)
(***************************************************************************)
DataFrame(columns, rows) == [columns |-> columns, rows |-> rows]

EmptyFrame == DataFrame(<< >>, << >>)

\* datetime.now().date(), as a day number
Today(t) == t \div 86400

\* int(120 * trend), int(base_bv * trend), int(80 * trend) with
\* trend = 1 + (i * 0.02) in binary floating point
TrendTransactions(i) == (12000 + 240 * i) \div 100
TrendBv(i) == IF i = 18 THEN 1359999 ELSE 1000000 + 20000 * i
TrendMembers(i) == (8000 + 160 * i) \div 100

TrendRows(t) ==
  [j \in 1..30 |-> << Today(t) - (30 - j), TrendTransactions(j - 1),
                      TrendBv(j - 1), TrendMembers(j - 1) >>]

StockistRowsFlat ==
  [i \in 1..10 |-> << <<"STK", i>>, 650000 - ((i \div 2) * 55000), 52 - (i * 4), 28 - (i * 2) >>]

StockistRows ==
  [i \in 1..10 |-> << <<"STK", i>>, 650000 - (i * 55000), 52 - (i * 4), 28 - (i * 2) >>]

JoinTrendRows(t) ==
  [j \in 1..7 |-> << Today(t) - (7 - j), 15 + (j - 1) * 2, 100 + (j - 1) * 25 >>]

\* SmartDatabase._generate_demo_data(sql) called at time t
GenerateDemoData(sql, t) ==
  LET sql_lower == SqlLower(sql)
      has(n) == Contains(sql_lower, n)
  IN  IF has("today") /\ has("newtrh") THEN
        DataFrame(<<"total_transactions", "total_bv", "total_tdp",
                    "unique_members", "unique_stockists">>,
                  << <<187, 1425000, 108750000, 94, 14>> >>)
      ELSE IF has("yesterday") THEN
        DataFrame(<<"total_transactions", "total_bv", "total_tdp", "unique_members">>,
                  << <<165, 1280000, 97500000, 88>> >>)
      ELSE IF has("month") /\ has("newtrh") THEN
        DataFrame(<<"total_transactions", "total_bv", "total_tdp",
                    "unique_members", "unique_stockists">>,
                  \* total_tdp 2240000000 is written as a string: it does not fit TLC's 32-bit integers
                  << <<3421, 29875000, "2240000000", 467, 52>> >>)
      ELSE IF has("30 days") \/ has("dateadd") THEN
        DataFrame(<<"trx_date", "total_transactions", "total_bv", "unique_members">>,
                  TrendRows(t))
      ELSE IF has("top 10") \/ has("stockist") THEN
        DataFrame(<<"stockist_code", "total_bv", "transaction_count", "unique_members">>,
                  StockistRows)
      ELSE IF has("msmemb") \/ has("jointdt") THEN
        IF has("today") THEN
          DataFrame(<<"total_join", "active_members">>, << <<24, 187>> >>)
        ELSE IF has("month") THEN
          DataFrame(<<"total_join", "active_members">>, << <<342, 2450>> >>)
        ELSE
          DataFrame(<<"join_date", "daily_join", "cumulative_join">>, JoinTrendRows(t))
      ELSE IF has("server_time") THEN
        DataFrame(<<"server_time">>, << <<t>> >>)
      ELSE EmptyFrame

(***************************************************************************)
(* The texts the caller sends, the cache_ttl values it passes and the      *)
(* amounts by which the clock advances between two calls.                  *)
(***************************************************************************)
SqlTexts ==
  << <<"SELECT", "GETDATE()", "AS", "server_time">>,
     <<"SELECT", "unique_members", "klink_mlm2010.dbo.newtrh", "TODAY">> >>

Sqls == {SqlTexts[i] : i \in 1..Len(SqlTexts)}

\* more texts that mention today, sent when no connection can be made
DegradeTexts ==
  << <<"SELECT", "total_join", "MsMemb", "today">>,
     <<"SELECT", "Today">> >>

AllTexts == SqlTexts \o DegradeTexts

Ttls == {DefaultTtl, MaxCacheAge + DefaultTtl}

Steps == {RateLimit, MaxCacheAge}

\* hash(sql): the cache key.  Python's str hash is taken to be free of
\* collisions on the texts of one run.
Hash(sql) == CHOOSE i \in 1..Len(AllTexts) : AllTexts[i] = sql

\* pd.read_sql(sql, conn) when the read succeeds: what the database holds for
\* sql at time t
DbFrame(sql, t) == DataFrame(<<"db_query", "db_value">>, << <<Hash(sql), t>> >>)

\* what a caller does to a DataFrame it was given
MutatedFrame(df) == DataFrame(Append(df.columns, "caller_column"), df.rows)

IsMutated(df) ==
  Len(df.columns) > 0 /\ df.columns[Len(df.columns)] = "caller_column"

(***************************************************************************)
(* Exceptions.  Both handlers of SmartDatabase are "except Exception".     *)
(***************************************************************************)
\* what the network answers to a connection attempt
ConnectOutcomes(ssh) ==
  IF ssh THEN {"ok", "tunnel_ctor_fails", "tunnel_start_fails", "db_fails", "db_timeout"}
  ELSE {"ok", "db_fails", "db_timeout"}

\* a read is executed only with a handle: after a failed attempt there is none
ReadOutcomes(connect_outcome) ==
  IF connect_outcome = "ok" THEN {"ok", "read_fails", "read_timeout"} ELSE {"ok"}

\* the exception a failing step raises
RaisedBy(outcome) ==
  CASE outcome = "tunnel_ctor_fails" -> "ValueError"
    [] outcome = "tunnel_start_fails" -> "BaseSSHTunnelForwarderError"
    [] outcome = "db_fails" -> "pyodbc.InterfaceError"
    [] outcome = "db_timeout" -> "pyodbc.OperationalError"
    [] outcome = "read_fails" -> "pandas.errors.DatabaseError"
    [] outcome = "read_timeout" -> "pyodbc.OperationalError"
    [] OTHER -> None

ExceptPyodbcError(e) == e \in {"pyodbc.InterfaceError", "pyodbc.OperationalError"}

\* "except Exception as e": every exception the steps raise derives from Exception
ExceptException(e) ==
  e \in {"ValueError", "BaseSSHTunnelForwarderError", "pyodbc.InterfaceError",
         "pyodbc.OperationalError", "pandas.errors.DatabaseError"}

(***************************************************************************)
(* State.                                                                  *)
(***************************************************************************)
VARIABLES
  constructed,         \* SmartDatabase() has returned
  use_ssh,             \* self.use_ssh
  tunnel,              \* self.tunnel: None, "created" or "started"
  conn,                \* self.conn: None or "open"
  use_demo,            \* self.use_demo
  connection_message,  \* self.connection_message
  last_query_time,     \* self.last_query_time
  query_cache,         \* self.query_cache: key -> [data, timestamp]
  heap,                \* the live DataFrame objects: identity -> content
  held,                \* the returned DataFrames the caller still references
  now,                 \* time.time()
  ticks,               \* clock advances so far
  attempts,            \* some call has attempted to open a tunnel or a connection
  returned,            \* key -> content returned by, and cache_ttl of, the storing call
  ret                  \* the last call and what it returned

\* app.py: the DatabaseConnector of one browser session
VARIABLES
  DB_CONFIG,           \* "empty", "ssh" or "direct": what st.secrets configures
  db,                  \* st.session_state.db: connection, tunnel, is_connected
  session_state,       \* st.session_state: the keys present and their values
  opened,              \* tunnels started and not stopped, handles opened and not
                       \* closed, connection attempts made so far
  event                \* the last step of the session

\* database.py: the module's instance db, shared by the threads that run the
\* scripts of the sessions
VARIABLES
  instance,            \* the attributes of db
  threads,             \* for each caller: where its call stands, and its locals
  network              \* time.time(), whether the secrets were loaded, the tunnels
                       \* started, the handles opened, the stores made into the cache

\* app.py: a key presented to LicenseValidator
VARIABLES
  license_input,       \* the text the user presents
  clock,               \* datetime.now(): the index of an instant
  validation,          \* what the last validate call returned, and when
  accepted             \* what the first call that accepted the key returned

dbvars == << constructed, use_ssh, tunnel, conn, use_demo, connection_message,
             last_query_time, query_cache, heap, held, now, ticks, attempts,
             returned, ret >>

appvars == << DB_CONFIG, db, session_state, opened, event >>

licvars == << license_input, clock, validation, accepted >>

shvars == << instance, threads, network >>

vars == << dbvars, appvars, licvars, shvars >>

\* the fields of the instance a method reads and writes
Self ==
  [ use_ssh |-> use_ssh, tunnel |-> tunnel, conn |-> conn, use_demo |-> use_demo,
    connection_message |-> connection_message, last_query_time |-> last_query_time,
    query_cache |-> query_cache, heap |-> heap ]

NoCall ==
  [ op |-> "none", sql |-> << >>, ttl |-> 0, path |-> "none", data |-> NoObject,
    content |-> EmptyFrame, raised |-> None, attempt |-> "none", read |-> "none" ]

\* no browser session runs app.py
NoSession ==
  /\ DB_CONFIG = "empty"
  /\ db = [connection |-> None, tunnel |-> None, is_connected |-> FALSE]
  /\ session_state = << >>
  /\ opened = [tunnels |-> 0, handles |-> 0, attempts |-> 0]
  /\ event = [op |-> "none", attempt |-> "none", value |-> None]

\* no call of validate has returned
NoValidation ==
  [ called |-> FALSE, now1 |-> 0, now2 |-> 0,
    r |-> [ valid |-> FALSE, message |-> "", date |-> << >>, email |-> << >>,
            expiry |-> [ year |-> 0, month |-> 0, day |-> 0, hour |-> 0, minute |-> 0,
                         second |-> 0, microsecond |-> 0 ],
            days_left |-> 0, license_key |-> << >> ] ]

\* no key is presented
NoLicense ==
  /\ license_input = << >>
  /\ clock = 0
  /\ validation = NoValidation
  /\ accepted = NoValidation

\* the callers of the shared instance
Callers == {"a", "b"}

\* a caller that is in no call; path tells how its last call ended
Idle(calls, path) ==
  [ pc |-> "idle", calls |-> calls, op |-> "none", sql |-> << >>, current_time |-> 0,
    connect_time |-> 0, it_size |-> 0, it_pos |-> 0, expired |-> << >>, path |-> path ]

\* no thread uses the module's instance
NoShared ==
  /\ instance = [ use_ssh |-> FALSE, tunnel |-> None, conn |-> None, use_demo |-> FALSE,
                  last_query_time |-> 0, query_cache |-> << >> ]
  /\ threads = [c \in Callers |-> Idle(0, "none")]
  /\ network = [now |-> 0, config_ok |-> TRUE, started |-> {}, open |-> {}, stores |-> << >>]

\* SmartDatabase.__init__, lines 11-16
Init ==
  /\ constructed = FALSE
  /\ use_ssh \in BOOLEAN
  /\ tunnel = None
  /\ conn = None
  /\ use_demo = FALSE
  /\ connection_message = ""
  /\ last_query_time = 0
  /\ query_cache = << >>
  /\ heap = << >>
  /\ held = << >>
  /\ now \in {0, RateLimit}
  /\ ticks = 0
  /\ attempts = FALSE
  /\ returned = << >>
  /\ ret = NoCall
  /\ NoSession
  /\ NoLicense
  /\ NoShared

ConstructForgetsDemo(config_ok) ==
  /\ ~constructed
  /\ constructed' = TRUE
  /\ connection_message' = IF config_ok THEN "config loaded" ELSE "demo"
  /\ ret' = [NoCall EXCEPT !.op = "init",
                           !.path = IF config_ok THEN "config loaded" ELSE "config failed"]
  /\ UNCHANGED << use_ssh, tunnel, conn, use_demo, last_query_time, query_cache, heap,
                  held, now, ticks, attempts, returned >>

\* SmartDatabase.__init__, lines 18-47: loading st.secrets succeeds or raises
Construct(config_ok) ==
  /\ ~constructed
  /\ constructed' = TRUE
  /\ use_demo' = ~config_ok
  /\ connection_message' = IF config_ok THEN "config loaded" ELSE "demo"
  /\ ret' = [NoCall EXCEPT !.op = "init",
                           !.path = IF config_ok THEN "config loaded" ELSE "config failed"]
  /\ UNCHANGED << use_ssh, tunnel, conn, last_query_time, query_cache, heap, held,
                  now, ticks, attempts, returned >>

\* the clock advances between two calls
Tick(d) ==
  /\ ticks < MaxTicks
  /\ now' = now + d
  /\ ticks' = ticks + 1
  /\ ret' = NoCall
  /\ UNCHANGED << constructed, use_ssh, tunnel, conn, use_demo, connection_message,
                  last_query_time, query_cache, heap, held, attempts, returned >>

(***************************************************************************)
(* Objects.                                                                *)
(***************************************************************************)
\* the identity of a newly created DataFrame: one no live object has
Fresh(used) ==
  LET n == CHOOSE i \in 1..(Cardinality(used) + 1) :
             <<"frame", i>> \notin used /\ \A j \in 1..(i - 1) : <<"frame", j>> \in used
  IN  <<"frame", n>>

\* the identity of the copy made for the cache entry of cache_key: the entry it
\* replaces is the only object that had it, and nothing else refers to that one
FreshCopy(cache_key) == <<"copy", cache_key>>

Range(f) == {f[x] : x \in DOMAIN f}

\* the objects still referenced by the cache or by the caller
Live(cache, refs) == {cache[k].data : k \in DOMAIN cache} \cup Range(refs)

Collect(h, live) == [i \in (DOMAIN h) \cap live |-> h[i]]

\* the caller keeps the newest MaxHeld results
Keep(refs, id) ==
  LET all == Append(refs, id)
  IN  IF Len(all) > MaxHeld THEN Tail(all) ELSE all

(***************************************************************************)
(* SmartDatabase.connect                                                   *)
(***************************************************************************)
RateLimitedOrAt(current_time, last) == current_time - last <= RateLimit

RateLimitedInverted(current_time, last) == current_time - last > RateLimit

\* line 57: current_time - self.last_query_time < 5
RateLimited(current_time, last) == current_time - last < RateLimit

\* lines 62-96: the tunnel and the handle after the attempt's steps
Attempt(s, outcome) ==
  LET tun == IF ~s.use_ssh \/ outcome = "tunnel_ctor_fails" THEN s.tunnel
             ELSE IF outcome = "tunnel_start_fails" THEN "created"
             ELSE "started"
  IN  [s EXCEPT !.tunnel = tun,
                !.conn = IF outcome = "ok" THEN "open" ELSE s.conn]

ConnectNeverSkips(s) == FALSE

\* lines 51-52: if self.use_demo: return None
ConnectSkips(s) == s.use_demo

\* connect(self) called at time t; outcome is what the network does
Connect(s, t, outcome) ==
  IF ConnectSkips(s) THEN
    [self |-> s, value |-> None, raised |-> None, attempt |-> "none"]
  ELSE IF RateLimited(t, s.last_query_time) THEN
    [self |-> s, value |-> None, raised |-> None, attempt |-> "none"]
  ELSE
    LET s1 == Attempt([s EXCEPT !.last_query_time = t], outcome)
        e == RaisedBy(outcome)
    IN  IF e = None THEN
          [self |-> [s1 EXCEPT !.connection_message = "connected"],
           value |-> s1.conn, raised |-> None, attempt |-> outcome]
        ELSE IF ExceptException(e) THEN
          [self |-> [s1 EXCEPT !.use_demo = TRUE, !.connection_message = "demo"],
           value |-> None, raised |-> None, attempt |-> outcome]
        ELSE
          [self |-> s1, value |-> None, raised |-> e, attempt |-> outcome]

(***************************************************************************)
(* SmartDatabase.query and SmartDatabase._clean_cache                      *)
(***************************************************************************)
CacheFreshInverted(current_time, timestamp, cache_ttl) ==
  current_time - timestamp > cache_ttl

CacheFreshSwapped(current_time, timestamp, cache_ttl) ==
  timestamp - current_time < cache_ttl

\* line 113: current_time - timestamp < cache_ttl
CacheFresh(current_time, timestamp, cache_ttl) == current_time - timestamp < cache_ttl

TooOldInverted(current_time, timestamp) == current_time - timestamp < MaxCacheAge

\* line 155: current_time - timestamp > 3600
TooOld(current_time, timestamp) == current_time - timestamp > MaxCacheAge

\* _clean_cache(self) at time t
CleanCache(s, t) ==
  LET expired_keys == {k \in DOMAIN s.query_cache : TooOld(t, s.query_cache[k].timestamp)}
      keep == (DOMAIN s.query_cache) \ expired_keys
  IN  [s EXCEPT !.query_cache = [k \in keep |-> s.query_cache[k]]]

\* self.query_cache[cache_key] = (result, current_time), without the copy
StoreAlias(s, cache_key, result, t) ==
  [s EXCEPT !.query_cache = (cache_key :> [data |-> result, timestamp |-> t]) @@ s.query_cache]

\* self.query_cache[cache_key] = (result.copy(), current_time)
Store(s, cache_key, result, t) ==
  LET copy == FreshCopy(cache_key)
  IN  [s EXCEPT !.heap = (copy :> s.heap[result]) @@ s.heap,
                !.query_cache = (cache_key :> [data |-> copy, timestamp |-> t]) @@ s.query_cache]

\* a new DataFrame object with the given content
NewFrame(s, content) == [s EXCEPT !.heap = (Fresh(DOMAIN s.heap) :> content) @@ s.heap]

Outcome(s, data, path, raised, attempt, read) ==
  [self |-> s, data |-> data, path |-> path, raised |-> raised,
   attempt |-> attempt, read |-> read]

\* result = self._generate_demo_data(sql); cache it; return result
Synthesize(s, sql, t, path, attempt, read) ==
  LET result == Fresh(DOMAIN s.heap)
      s1 == NewFrame(s, GenerateDemoData(sql, t))
  IN  Outcome(Store(s1, Hash(sql), result, t), result, path, None, attempt, read)

QueryFailedStaysReal(s, sql, t, attempt, read) ==
  Synthesize(s, sql, t, "failed", attempt, read)

\* lines 142-147: the handler of query
QueryFailed(s, sql, t, attempt, read) ==
  Synthesize([s EXCEPT !.use_demo = TRUE], sql, t, "failed", attempt, read)

\* lines 111-114: the entry is present and fresh: return cached_data.copy()
CacheHit(s, sql, cache_ttl, t) ==
  /\ Hash(sql) \in DOMAIN s.query_cache
  /\ CacheFresh(t, s.query_cache[Hash(sql)].timestamp, cache_ttl)

\* query(self, sql, cache_ttl) called at time t
Query(s, sql, cache_ttl, t, connect_outcome, read_outcome) ==
  IF CacheHit(s, sql, cache_ttl, t) THEN
    LET copy == Fresh(DOMAIN s.heap)
        cached_data == s.query_cache[Hash(sql)].data
    IN  Outcome(NewFrame(s, s.heap[cached_data]), copy, "hit", None, "none", "none")
  ELSE IF s.use_demo THEN
    Synthesize(s, sql, t, "demo", "none", "none")
  ELSE
    LET c == IF s.conn = None THEN Connect(s, t, connect_outcome)
             ELSE [self |-> s, value |-> None, raised |-> None, attempt |-> "none"]
        s1 == c.self
    IN  IF c.raised # None THEN
          IF ExceptException(c.raised) THEN QueryFailed(s1, sql, t, c.attempt, "none")
          ELSE Outcome(s1, NoObject, "raised", c.raised, c.attempt, "none")
        ELSE IF s1.conn = None THEN
          Synthesize(s1, sql, t, "no connection", c.attempt, "none")
        ELSE IF read_outcome = "ok" THEN
          LET df == Fresh(DOMAIN s1.heap)
              s2 == NewFrame(s1, DbFrame(sql, t))
          IN  Outcome(CleanCache(Store(s2, Hash(sql), df, t), t), df, "real",
                      None, c.attempt, read_outcome)
        ELSE IF ExceptException(RaisedBy(read_outcome)) THEN
          QueryFailed(s1, sql, t, c.attempt, read_outcome)
        ELSE Outcome(s1, NoObject, "raised", RaisedBy(read_outcome), c.attempt, read_outcome)

(***************************************************************************)
(* Actions: the calls of the one caller.                                   *)
(***************************************************************************)
\* the instance fields after a method returned s
Assign(s, refs) ==
  /\ tunnel' = s.tunnel
  /\ conn' = s.conn
  /\ use_demo' = s.use_demo
  /\ connection_message' = s.connection_message
  /\ last_query_time' = s.last_query_time
  /\ query_cache' = s.query_cache
  /\ heap' = Collect(s.heap, Live(s.query_cache, refs))
  /\ held' = refs

\* the cache holds an entry for sql stored less than cache_ttl seconds ago
HasFreshEntry(sql, cache_ttl) ==
  /\ Hash(sql) \in DOMAIN query_cache
  /\ now - query_cache[Hash(sql)].timestamp < cache_ttl

\* what the calls that stored the present entries returned
Remember(q, sql, cache_ttl) ==
  LET new == IF q.path \in {"hit", "raised"} THEN returned
             ELSE (Hash(sql) :> [content |-> q.self.heap[q.data], ttl |-> cache_ttl]) @@ returned
  IN  [k \in DOMAIN q.self.query_cache |-> new[k]]

CallConnect(outcome) ==
  /\ constructed
  /\ \E c \in {Connect(Self, now, outcome)} :
         /\ Assign(c.self, held)
         /\ attempts' = (attempts \/ c.attempt # "none")
         /\ ret' = [NoCall EXCEPT !.op = "connect", !.raised = c.raised,
                                  !.attempt = c.attempt,
                                  !.path = IF c.value = None THEN "none" ELSE "handle"]
  /\ UNCHANGED << constructed, use_ssh, now, ticks, returned >>

\* keeps: the caller keeps a reference to the DataFrame it is given
CallQuery(sql, cache_ttl, connect_outcome, read_outcome, keeps) ==
  /\ constructed
  /\ \E q \in {Query(Self, sql, cache_ttl, now, connect_outcome, read_outcome)} :
       \E refs \in {IF q.raised = None /\ keeps THEN Keep(held, q.data) ELSE held} :
         /\ Assign(q.self, refs)
         /\ attempts' = (attempts \/ q.attempt # "none")
         /\ ret' = [ op |-> "query", sql |-> sql, ttl |-> cache_ttl, path |-> q.path,
                     data |-> q.data,
                     content |-> IF q.raised = None THEN q.self.heap[q.data] ELSE EmptyFrame,
                     raised |-> q.raised, attempt |-> q.attempt, read |-> q.read ]
         /\ returned' = Remember(q, sql, cache_ttl)
  /\ UNCHANGED << constructed, use_ssh, now, ticks >>

\* the caller changes a DataFrame it was given
Mutate(i) ==
  /\ i \in 1..Len(held)
  /\ ~IsMutated(heap[held[i]])
  /\ heap' = [heap EXCEPT ![held[i]] = MutatedFrame(heap[held[i]])]
  /\ ret' = [NoCall EXCEPT !.op = "mutate", !.data = held[i]]
  /\ UNCHANGED << constructed, use_ssh, tunnel, conn, use_demo, connection_message,
                  last_query_time, query_cache, held, now, ticks, attempts, returned >>

\* The answers of the network and of the database are enumerated only for
\* the calls that can ask for them: a call served from the cache or made in
\* demo mode is given the one answer "ok", and so is the attempt of a call
\* that already holds a handle.
Asked(sql, cache_ttl, connect_outcome, read_outcome) ==
  /\ (use_demo \/ HasFreshEntry(sql, cache_ttl)) =>
        connect_outcome = "ok" /\ read_outcome = "ok"
  /\ conn # None => connect_outcome = "ok"

Next ==
  \/ \E config_ok \in BOOLEAN : Construct(config_ok) /\ UNCHANGED << appvars, licvars, shvars >>
  \/ \E d \in Steps : Tick(d) /\ UNCHANGED << appvars, licvars, shvars >>
  \/ \E o \in ConnectOutcomes(use_ssh) : CallConnect(o) /\ UNCHANGED << appvars, licvars, shvars >>
  \/ \E sql \in Sqls, cache_ttl \in Ttls, o \in ConnectOutcomes(use_ssh) :
       \E r \in ReadOutcomes(o) :
         /\ Asked(sql, cache_ttl, o, r)
         /\ CallQuery(sql, cache_ttl, o, r, FALSE)
         /\ UNCHANGED << appvars, licvars, shvars >>

Spec == Init /\ [][Next]_vars

(***************************************************************************)
(* Properties of SmartDatabase.query and SmartDatabase.connect.            *)
(***************************************************************************)
ReadFailures == {"read_fails", "read_timeout"}

\* every row of df has one cell per column
IsTable(df) == \A i \in 1..Len(df.rows) : Len(df.rows[i]) = Len(df.columns)

\* the entry the cache holds for the text of the last call
EntryOf(sql) == query_cache[Hash(sql)]

\* C1: whatever the text, the state of the instance and the outcome of the
\* connection attempt and of the read (success, error, timeout), query
\* returns a table to its caller and raises nothing.
C1_QueryNeverRaises ==
  ret.op = "query" =>
    /\ ret.raised = None
    /\ ret.data # NoObject
    /\ IsTable(ret.content)

\* a query whose read timed out has returned a table
C1_Witness ==
  /\ ret.op = "query"
  /\ ret.read = "read_timeout"
  /\ ret.raised = None
  /\ IsTable(ret.content)

\* C2: a query that misses the cache in REAL mode and whose read on the
\* handle fails leaves the instance in DEMO mode and returns what the
\* synthesizer gives for its text.
C2_FailedReadDemotes ==
  [][ (ret'.op = "query" /\ ret'.read \in ReadFailures) =>
        /\ ~use_demo
        /\ ~HasFreshEntry(ret'.sql, ret'.ttl)
        /\ use_demo'
        /\ ret'.raised = None
        /\ ret'.content = GenerateDemoData(ret'.sql, now) ]_vars

\* a failed read on an open handle has demoted the instance
C2_Witness ==
  /\ ret.op = "query"
  /\ ret.read \in ReadFailures
  /\ conn = "open"
  /\ use_demo
  /\ ret.content = GenerateDemoData(ret.sql, now)

\* C3: from DEMO mode every step ends in DEMO mode, no call attempts a
\* connection or reads the database, the handle, the tunnel and the time of
\* the last attempt stay as they are, and a query that misses the cache
\* returns synthesized data.
C3_DemoIsAbsorbing ==
  [][ use_demo =>
        /\ use_demo'
        /\ ret'.attempt = "none"
        /\ ret'.read = "none"
        /\ UNCHANGED << conn, tunnel, last_query_time, attempts >>
        /\ (ret'.op = "query" /\ ~HasFreshEntry(ret'.sql, ret'.ttl)) =>
             ret'.content = GenerateDemoData(ret'.sql, now) ]_vars

\* after a read from the database (its result is still cached) and a later
\* failure, a query is synthesized in DEMO mode with the handle still held
C3_Witness ==
  /\ ret.op = "query"
  /\ ret.path = "demo"
  /\ use_demo
  /\ conn = "open"
  /\ \E k \in DOMAIN query_cache :
       /\ k # Hash(ret.sql)
       /\ heap[query_cache[k].data].columns = <<"db_query", "db_value">>

\* C4, as claimed: when construction finishes a connection attempt has been
\* made and has decided the mode (a held handle, or DEMO).
C4_DecidedAtConstruction ==
  ret.op = "init" => (attempts /\ (conn # None \/ use_demo))

\* C4, amended: when construction finishes no attempt has been made, no
\* handle or tunnel is held and the instance is DEMO exactly when loading the
\* configuration failed.  An attempt is made only by connect(), called
\* directly or by a query that misses the cache without a handle, while the
\* instance is not DEMO; a successful attempt leaves a held handle and a
\* failed one leaves DEMO.
C4_DecidedAtFirstAttempt ==
  [][ /\ ret'.op = "init" =>
           /\ ~attempts'
           /\ conn' = None /\ tunnel' = None /\ last_query_time' = 0
           /\ use_demo' <=> (ret'.path = "config failed")
      /\ ret'.attempt # "none" =>
           /\ ret'.op \in {"connect", "query"}
           /\ ~use_demo
           /\ ret'.op = "query" => (conn = None /\ ~HasFreshEntry(ret'.sql, ret'.ttl))
           /\ IF ret'.attempt = "ok" THEN conn' = "open" ELSE use_demo' ]_vars

\* the first query of a freshly constructed instance has connected
C4_Witness ==
  /\ ret.op = "query"
  /\ ret.attempt = "ok"
  /\ ret.path = "real"
  /\ conn = "open"
  /\ ~use_demo

\* C5: a query that finds an entry for its text stored less than cache_ttl
\* seconds ago returns that entry's value and changes nothing: no attempt,
\* no read, no synthesis, and mode, handle, tunnel, time of the last attempt
\* and cache are as before, in REAL and in DEMO mode.
C5_HitChangesNothing ==
  [][ (ret'.op = "query" /\ HasFreshEntry(ret'.sql, ret'.ttl)) =>
        /\ ret'.path = "hit"
        /\ ret'.raised = None
        /\ ret'.content = heap[EntryOf(ret'.sql).data]
        /\ ret'.attempt = "none"
        /\ ret'.read = "none"
        /\ UNCHANGED << use_demo, conn, tunnel, last_query_time, connection_message,
                        query_cache >>
        /\ \A k \in DOMAIN query_cache :
             heap'[query_cache[k].data] = heap[query_cache[k].data] ]_vars

\* in DEMO mode a query was served an entry read from the database earlier
C5_Witness ==
  /\ ret.op = "query"
  /\ ret.path = "hit"
  /\ use_demo
  /\ ret.content.columns = <<"db_query", "db_value">>

\* C6: after a query that misses the cache, the cache holds an entry for its
\* text whose value is the value returned and whose time is the time of the
\* call, for data read from the database and for synthesized data.
C6_MissIsCached ==
  [][ (ret'.op = "query" /\ ~HasFreshEntry(ret'.sql, ret'.ttl)) =>
        /\ Hash(ret'.sql) \in DOMAIN query_cache'
        /\ query_cache'[Hash(ret'.sql)].timestamp = now
        /\ heap'[query_cache'[Hash(ret'.sql)].data] = ret'.content
        /\ ret'.content = IF ret'.read = "ok" THEN DbFrame(ret'.sql, now)
                          ELSE GenerateDemoData(ret'.sql, now) ]_vars

\* a read from the database was cached, beside the entry of the other text
C6_Witness ==
  /\ ret.op = "query"
  /\ ret.path = "real"
  /\ Cardinality(DOMAIN query_cache) = 2
  /\ EntryOf(ret.sql).timestamp = now
  /\ heap[EntryOf(ret.sql).data] = ret.content

C8_NeverServesOlderThanAnHour ==
  (ret.op = "query" /\ ret.path = "hit") =>
    now - EntryOf(ret.sql).timestamp <= MaxCacheAge

\* C9: right after a query that stored an entry, no entry stored more than
\* 3600 seconds earlier remains in the cache.
C9_EveryStorePurges ==
  (ret.op = "query" /\ ret.path \notin {"hit", "raised"}) =>
    \A k \in DOMAIN query_cache : now - query_cache[k].timestamp <= MaxCacheAge

\* C11, as claimed: in any sequence of connect() and query() calls, an attempt that opens
\* a tunnel or a connection is made at least 5 seconds after the previous
\* one; a connect() called less than 5 seconds after the previous attempt
\* opens nothing, leaves handle, tunnel, mode and time of the last attempt
\* as they are, and returns the connection state the instance was in: the
\* handle when one is held, nothing when none is.
C11_RateLimitReturnsPriorState ==
  [][ /\ ret'.attempt # "none" =>
           /\ last_query_time' = now
           /\ attempts => now - last_query_time >= RateLimit
      /\ last_query_time' # last_query_time => ret'.attempt # "none"
      /\ (ret'.op = "connect" /\ ~use_demo /\ attempts
            /\ now - last_query_time < RateLimit) =>
           /\ ret'.attempt = "none"
           /\ UNCHANGED << conn, tunnel, use_demo, last_query_time >>
           /\ (ret'.path = "handle") <=> (conn # None) ]_vars

\* C11, amended: attempts are at least 5 seconds apart and the time of the
\* last attempt changes only when an attempt is made; a connect() called less
\* than 5 seconds after the previous attempt opens nothing, leaves handle,
\* tunnel, mode and time of the last attempt as they are, and returns None
\* whether or not a handle is held.
C11_RateLimitReturnsNone ==
  [][ /\ ret'.attempt # "none" =>
           /\ last_query_time' = now
           /\ attempts => now - last_query_time >= RateLimit
      /\ last_query_time' # last_query_time => ret'.attempt # "none"
      /\ (ret'.op = "connect" /\ ~use_demo /\ attempts
            /\ now - last_query_time < RateLimit) =>
           /\ ret'.attempt = "none"
           /\ UNCHANGED << conn, tunnel, use_demo, last_query_time >>
           /\ ret'.path = "none" ]_vars

\* a connect() made in the 5 seconds after a successful attempt has returned
\* None while the handle of that attempt is held
C11_Witness ==
  /\ ret.op = "connect"
  /\ ret.attempt = "none"
  /\ ret.path = "none"
  /\ attempts
  /\ ~use_demo
  /\ conn = "open"
  /\ now - last_query_time < RateLimit

\* C12: whenever an attempt has started the tunnel and the database connect
\* then failed, the tunnel has been stopped when the attempt returns: no
\* started tunnel exists without a held database handle.
C12_NoTunnelWithoutHandle ==
  tunnel = "started" => conn # None

(***************************************************************************)
(* The caller keeps the DataFrames it is given and changes them.           *)
(***************************************************************************)
\* a direct connection, and a clock that has passed the first seconds
InitCopy == Init /\ ~use_ssh /\ now = RateLimit

\* the caller reads with one cache_ttl, an hour passes between two calls: an
\* entry is served once more after an hour and replaced after two
NextCopy ==
  \/ \E config_ok \in BOOLEAN : Construct(config_ok) /\ UNCHANGED << appvars, licvars, shvars >>
  \/ Tick(MaxCacheAge) /\ UNCHANGED << appvars, licvars, shvars >>
  \/ \E sql \in Sqls, cache_ttl \in {MaxCacheAge + DefaultTtl},
        o \in ConnectOutcomes(use_ssh) :
       \E r \in ReadOutcomes(o) :
         /\ Asked(sql, cache_ttl, o, r)
         /\ CallQuery(sql, cache_ttl, o, r, TRUE)
         /\ UNCHANGED << appvars, licvars, shvars >>
  \/ \E i \in 1..MaxHeld : Mutate(i) /\ UNCHANGED << appvars, licvars, shvars >>

SpecCopy == InitCopy /\ [][NextCopy]_vars

CachedObjects == {query_cache[k].data : k \in DOMAIN query_cache}

\* C10: a hit returns the content that the call which stored the entry
\* returned; every returned DataFrame is an object of its own, distinct
\* from the stored one and from the other returned ones; whatever the caller
\* does to the DataFrames it holds, the stored content stays what it was.
C10_ReturnsDefensiveCopies ==
  /\ [](/\ \A k \in DOMAIN query_cache :
             heap[query_cache[k].data] = returned[k].content
        /\ Range(held) \cap CachedObjects = {}
        /\ \A i, j \in 1..Len(held) : held[i] = held[j] => i = j
        /\ (ret.op = "query" /\ ret.raised = None) => ret.data \notin CachedObjects)
  /\ [][ (ret'.op = "query" /\ ret'.path = "hit") =>
           /\ ret'.content = returned[Hash(ret'.sql)].content
           /\ ret'.data \notin Range(held) ]_vars

\* the caller changed the DataFrame a query had returned, and a later hit
\* on the same entry returned the content as it was before the change
C10_Witness ==
  /\ ret.op = "query"
  /\ ret.path = "hit"
  /\ Len(held) = 2
  /\ held[2] = ret.data
  /\ heap[held[2]] = returned[Hash(ret.sql)].content
  /\ heap[held[1]] = MutatedFrame(heap[held[2]])

(***************************************************************************)
(* No connection can be made: every attempt fails.                         *)
(***************************************************************************)
FailingOutcomes(ssh) == ConnectOutcomes(ssh) \ {"ok"}

\* the texts that have "today" in them, in some letter case, and those of
\* them that have "newtrh" as well
TodayTexts == {SqlTexts[2], DegradeTexts[1], DegradeTexts[2]}

TodayNewtrhTexts == {SqlTexts[2]}

\* the caller asks for today's figures with the default cache_ttl
NextDegrade ==
  \/ \E config_ok \in BOOLEAN : Construct(config_ok) /\ UNCHANGED << appvars, licvars, shvars >>
  \/ \E d \in Steps : Tick(d) /\ UNCHANGED << appvars, licvars, shvars >>
  \/ \E o \in FailingOutcomes(use_ssh) : CallConnect(o) /\ UNCHANGED << appvars, licvars, shvars >>
  \/ \E sql \in TodayTexts, o \in FailingOutcomes(use_ssh) :
       /\ CallQuery(sql, DefaultTtl, o, "ok", FALSE)
       /\ UNCHANGED << appvars, licvars, shvars >>

SpecDegrade == Init /\ [][NextDegrade]_vars

TodayColumns ==
  <<"total_transactions", "total_bv", "total_tdp", "unique_members", "unique_stockists">>

\* C20, as claimed: when every connection attempt fails, query returns for
\* every text that has "today" in it, in any letter case, without raising,
\* one row with the five columns of today's statistics.
C20_TodayGivesTodayStatistics ==
  (ret.op = "query" /\ ret.sql \in TodayTexts) =>
    /\ ret.raised = None
    /\ ret.content.columns = TodayColumns
    /\ Len(ret.content.rows) = 1

\* C20, amended: when every connection attempt fails, query returns without
\* raising for every text that has "today" in it; it returns one row with
\* the five columns of today's statistics when the text has "newtrh" in it
\* as well, in any letter case, and a result of another shape when it has
\* not.
C20_TodayAndNewtrhGiveTodayStatistics ==
  (ret.op = "query" /\ ret.sql \in TodayTexts) =>
    /\ ret.raised = None
    /\ IF ret.sql \in TodayNewtrhTexts
       THEN /\ ret.content.columns = TodayColumns
            /\ Len(ret.content.rows) = 1
            /\ IsTable(ret.content)
       ELSE ret.content.columns # TodayColumns

\* a query for today's statistics, written in capitals, made an attempt that
\* failed and returned the five columns
C20_Witness ==
  /\ ret.op = "query"
  /\ ret.sql = SqlTexts[2]
  /\ ret.attempt \in FailingOutcomes(use_ssh)
  /\ use_demo
  /\ ret.content.columns = TodayColumns

(***************************************************************************)
(* The synthesizer alone: _generate_demo_data called with every text that  *)
(* can be put together from the words it looks for.                        *)
(***************************************************************************)
\* number of the words _generate_demo_data looks for that one text has
MaxWords == 2

\* one word for each needle, in the letter case the dashboards write it
NeedleWords ==
  << "TODAY", "klink_mlm2010.dbo.newtrh", "yesterday", "MONTH(createdt)", "30 days",
     "DATEADD(DAY,", "TOP 10", "stockist_code", "MsMemb", "jointdt", "server_time" >>

\* the text that has the chosen words, in the order of NeedleWords
TextOf(chosen) ==
  LET Chosen(w) == w \in chosen
  IN  <<"SELECT">> \o SelectSeq(NeedleWords, Chosen)

SynthTexts ==
  { TextOf(chosen) :
      chosen \in {c \in SUBSET {NeedleWords[i] : i \in 1..Len(NeedleWords)} :
                    Cardinality(c) <= MaxWords} }

\* self._generate_demo_data(sql) called at the time now
CallGenerate(sql) ==
  /\ constructed
  /\ ret' = [NoCall EXCEPT !.op = "generate", !.sql = sql,
                           !.content = GenerateDemoData(sql, now)]
  /\ UNCHANGED << constructed, use_ssh, tunnel, conn, use_demo, connection_message,
                  last_query_time, query_cache, heap, held, now, ticks, attempts, returned >>

InitSynth == Init /\ ~use_ssh /\ now = 0

\* the clock advances by a day
NextSynth ==
  \/ \E config_ok \in BOOLEAN : Construct(config_ok) /\ UNCHANGED << appvars, licvars, shvars >>
  \/ Tick(24 * MaxCacheAge) /\ UNCHANGED << appvars, licvars, shvars >>
  \/ \E sql \in SynthTexts : CallGenerate(sql) /\ UNCHANGED << appvars, licvars, shvars >>

SpecSynth == InitSynth /\ [][NextSynth]_vars

\* the text sql has one of the words
Mentions(sql, words) == \E i \in 1..Len(sql) : sql[i] \in words

\* the position of the column named name
ColumnOf(df, name) == CHOOSE i \in 1..Len(df.columns) : df.columns[i] = name

\* sql matches a category that _generate_demo_data looks for before the top stockists
MatchesBeforeStockists(sql) ==
  \/ Mentions(sql, {"TODAY"}) /\ Mentions(sql, {"klink_mlm2010.dbo.newtrh"})
  \/ Mentions(sql, {"yesterday"})
  \/ Mentions(sql, {"MONTH(createdt)"}) /\ Mentions(sql, {"klink_mlm2010.dbo.newtrh"})
  \/ Mentions(sql, {"30 days", "DATEADD(DAY,"})

\* C21: for every text that has "top 10" or "stockist" in it and matches no
\* earlier category, the synthesizer returns exactly 10 rows, the codes of 10
\* stockists, and the volume (total_bv) of each row is greater than that of
\* the next.
C21_TopTenDescending ==
  (/\ ret.op = "generate"
   /\ Mentions(ret.sql, {"TOP 10", "stockist_code"})
   /\ ~MatchesBeforeStockists(ret.sql)) =>
     /\ Len(ret.content.rows) = 10
     /\ IsTable(ret.content)
     /\ "total_bv" \in {ret.content.columns[i] : i \in 1..Len(ret.content.columns)}
     /\ \A i \in 1..9 :
          ret.content.rows[i][ColumnOf(ret.content, "total_bv")]
            > ret.content.rows[i + 1][ColumnOf(ret.content, "total_bv")]
     /\ \A i \in 1..10 : ret.content.rows[i][ColumnOf(ret.content, "total_bv")] > 0

\* a text with a stockist word and a member-join word got the ten stockists
C21_Witness ==
  /\ ret.op = "generate"
  /\ ret.sql = TextOf({"stockist_code", "MsMemb"})
  /\ Len(ret.content.rows) = 10
  /\ ret.content.rows[1][ColumnOf(ret.content, "total_bv")] = 595000
  /\ ret.content.rows[10][ColumnOf(ret.content, "total_bv")] = 100000

\* C22: for every text that has "msmemb" or "jointdt" in it and neither
\* "today" nor "month", the synthesizer returns the trend of member joins:
\* exactly 7 rows, one for each of the last 7 days ending today, in ascending
\* order of date, each with a daily join count, whatever other words the
\* text has.
C22_JoinTrendWhateverElse ==
  (/\ ret.op = "generate"
   /\ Mentions(ret.sql, {"MsMemb", "jointdt"})
   /\ ~Mentions(ret.sql, {"TODAY", "MONTH(createdt)"})) =>
     /\ Len(ret.content.rows) = 7
     /\ IsTable(ret.content)
     /\ "daily_join" \in {ret.content.columns[i] : i \in 1..Len(ret.content.columns)}
     /\ \A j \in 1..7 : ret.content.rows[j][1] = Today(now) - (7 - j)

(***************************************************************************)
(* app.py: one browser session.  The script creates one DatabaseConnector  *)
(* per session and connects it; the pages query it, the settings page      *)
(* reconnects it, the sidebar logs the user out.                           *)
(***************************************************************************)
\* number of connection attempts in one session
MaxConnects == 2

\* what the network answers to connect_with_ssh and to connect_direct
SshOutcomes == {"ok", "tunnel_ctor_fails", "tunnel_start_fails", "db_fails", "db_timeout"}

DirectOutcomes == {"ok", "driver17_missing_18_ok", "driver17_missing_18_fails", "db_fails"}

\* what cursor.execute does on a handle
ExecuteOutcomes == {"ok", "execute_fails"}

Connector(d, o) == [db |-> d, opened |-> o]

\* DatabaseConnector.connect_with_ssh
ConnectWithSsh(c, outcome) ==
  LET made == [c.opened EXCEPT !.attempts = @ + 1]
  IN  IF outcome = "tunnel_ctor_fails" THEN
        [self |-> Connector(c.db, made), success |-> FALSE]
      ELSE IF outcome = "tunnel_start_fails" THEN
        [self |-> Connector([c.db EXCEPT !.tunnel = "created"], made), success |-> FALSE]
      ELSE IF outcome = "ok" THEN
        [self |-> Connector([c.db EXCEPT !.tunnel = "started", !.connection = "open",
                                         !.is_connected = TRUE],
                            [made EXCEPT !.tunnels = @ + 1, !.handles = @ + 1]),
         success |-> TRUE]
      ELSE
        [self |-> Connector([c.db EXCEPT !.tunnel = "started"],
                            [made EXCEPT !.tunnels = @ + 1]),
         success |-> FALSE]

\* DatabaseConnector.connect_direct
ConnectDirect(c, outcome) ==
  LET made == [c.opened EXCEPT !.attempts = @ + 1]
  IN  IF outcome \in {"ok", "driver17_missing_18_ok"} THEN
        [self |-> Connector([c.db EXCEPT !.connection = "open", !.is_connected = TRUE],
                            [made EXCEPT !.handles = @ + 1]),
         success |-> TRUE]
      ELSE [self |-> Connector(c.db, made), success |-> FALSE]

\* DatabaseConnector.initialize_from_secrets
InitializeFromSecrets(c, config, outcome) ==
  IF config = "empty" THEN [self |-> c, success |-> FALSE]
  ELSE IF config = "ssh" THEN ConnectWithSsh(c, outcome)
  ELSE ConnectDirect(c, outcome)

\* DatabaseConnector.query: a DataFrame or None
ConnectorQuery(c, config, outcome, execute) ==
  LET i == IF ~c.db.is_connected \/ c.db.connection = None
           THEN InitializeFromSecrets(c, config, outcome)
           ELSE [self |-> c, success |-> TRUE]
  IN  IF ~i.success THEN [self |-> i.self, value |-> None]
      ELSE [self |-> i.self, value |-> IF execute = "ok" THEN "DataFrame" ELSE None]

\* what connection.close() and tunnel.stop() do
ReleaseOutcomes == {"ok", "raises"}

CloseWithOneTry(c, closing, stopping) ==
  LET closed == IF c.db.connection = "open" /\ closing = "ok"
                THEN Connector([c.db EXCEPT !.connection = "closed"],
                               [c.opened EXCEPT !.handles = @ - 1])
                ELSE c
      stops == c.db.tunnel # None /\ (c.db.connection = None \/ closing = "ok")
      stopped == IF stops /\ closed.db.tunnel = "started" /\ stopping = "ok"
                 THEN Connector([closed.db EXCEPT !.tunnel = "stopped"],
                                [closed.opened EXCEPT !.tunnels = @ - 1])
                 ELSE closed
  IN  [self |-> Connector([stopped.db EXCEPT !.is_connected = FALSE], stopped.opened),
       calls |-> (IF c.db.connection # None THEN <<"connection.close">> ELSE << >>)
                   \o (IF stops THEN <<"tunnel.stop">> ELSE << >>),
       raised |-> None]

\* DatabaseConnector.close, lines 191-203: closing and stopping are what
\* connection.close() and tunnel.stop() do when they are called; calls are
\* the calls made, in order
CloseWith(c, closing, stopping) ==
  LET closed == IF c.db.connection = "open" /\ closing = "ok"
                THEN Connector([c.db EXCEPT !.connection = "closed"],
                               [c.opened EXCEPT !.handles = @ - 1])
                ELSE c
      stopped == IF closed.db.tunnel = "started" /\ stopping = "ok"
                 THEN Connector([closed.db EXCEPT !.tunnel = "stopped"],
                                [closed.opened EXCEPT !.tunnels = @ - 1])
                 ELSE closed
  IN  [self |-> Connector([stopped.db EXCEPT !.is_connected = FALSE], stopped.opened),
       calls |-> (IF c.db.connection # None THEN <<"connection.close">> ELSE << >>)
                   \o (IF c.db.tunnel # None THEN <<"tunnel.stop">> ELSE << >>),
       raised |-> None]

\* DatabaseConnector.close when neither connection.close() nor tunnel.stop()
\* raises
Close(c) == CloseWith(c, "ok", "ok").self

\* del st.session_state[key] for each of the keys that is present
Delete(state, keys) == [k \in (DOMAIN state) \ keys |-> state[k]]

\* the answers of the network a configuration can ask for
OutcomesOf(config) ==
  IF config = "ssh" THEN SshOutcomes
  ELSE IF config = "direct" THEN DirectOutcomes
  ELSE {"ok"}

\* an attempt is made when the configuration names a server
Attempted(config, outcome) == IF config = "empty" THEN "none" ELSE outcome

\* no SmartDatabase is constructed
NoDatabase ==
  /\ constructed = FALSE /\ use_ssh = FALSE /\ tunnel = None /\ conn = None
  /\ use_demo = FALSE /\ connection_message = "" /\ last_query_time = 0
  /\ query_cache = << >> /\ heap = << >> /\ held = << >> /\ now = 0
  /\ ticks = 0 /\ attempts = FALSE /\ returned = << >> /\ ret = NoCall

InitSession ==
  /\ DB_CONFIG \in {"empty", "ssh", "direct"}
  /\ db = [connection |-> None, tunnel |-> None, is_connected |-> FALSE]
  /\ session_state = << >>
  /\ opened = [tunnels |-> 0, handles |-> 0, attempts |-> 0]
  /\ event = [op |-> "none", attempt |-> "none", value |-> None]
  /\ NoDatabase
  /\ NoLicense
  /\ NoShared

\* the first run of the script in a session, lines 206-219 and main()
StartSession(outcome) ==
  /\ "db" \notin DOMAIN session_state
  /\ \E i \in {InitializeFromSecrets(Connector(db, opened), DB_CONFIG, outcome)} :
       /\ db' = i.self.db
       /\ opened' = i.self.opened
       /\ session_state' = [k \in {"db", "db_initialized", "authenticated"} |->
                              IF k = "db" THEN "DatabaseConnector"
                              ELSE IF k = "db_initialized" THEN i.success
                              ELSE FALSE]
       /\ event' = [op |-> "start", attempt |-> Attempted(DB_CONFIG, outcome), value |-> None]
  /\ UNCHANGED DB_CONFIG

LoggedIn == "authenticated" \in DOMAIN session_state /\ session_state["authenticated"]

\* show_login: the license key was validated, lines 607-617
Login ==
  /\ "db" \in DOMAIN session_state
  /\ ~LoggedIn
  /\ session_state' = [k \in (DOMAIN session_state) \cup {"authenticated", "user_info"} |->
                         IF k = "authenticated" THEN TRUE
                         ELSE IF k = "user_info" THEN "Identity"
                         ELSE session_state[k]]
  /\ event' = [op |-> "login", attempt |-> "none", value |-> None]
  /\ UNCHANGED << DB_CONFIG, db, opened >>

\* a page of the dashboard calls db.query(q)
PageQuery(outcome, execute) ==
  /\ LoggedIn
  /\ \E q \in {ConnectorQuery(Connector(db, opened), DB_CONFIG, outcome, execute)} :
       /\ db' = q.self.db
       /\ opened' = q.self.opened
       /\ event' = [op |-> "query",
                    attempt |-> IF q.self.opened.attempts = opened.attempts THEN "none"
                                ELSE outcome,
                    value |-> q.value]
  /\ UNCHANGED << DB_CONFIG, session_state >>

\* show_settings: the button "Reconnect Database", lines 900-909
Reconnect(outcome) ==
  /\ LoggedIn
  /\ \E i \in {InitializeFromSecrets(Connector(db, opened), DB_CONFIG, outcome)} :
       /\ db' = i.self.db
       /\ opened' = i.self.opened
       /\ session_state' = [session_state EXCEPT !["db_initialized"] = i.success]
       /\ event' = [op |-> "reconnect", attempt |-> Attempted(DB_CONFIG, outcome),
                    value |-> None]
  /\ UNCHANGED DB_CONFIG

\* show_dashboard: the button "Logout", lines 995-999, and the rerun's main()
Logout ==
  /\ LoggedIn
  /\ \E deleted \in {Delete(session_state, {"authenticated", "user_info",
                                            "db_connection", "current_page"})} :
       session_state' = [k \in (DOMAIN deleted) \cup {"authenticated"} |->
                           IF k = "authenticated" THEN FALSE ELSE deleted[k]]
  /\ event' = [op |-> "logout", attempt |-> "none", value |-> None]
  /\ UNCHANGED << DB_CONFIG, db, opened >>

\* check_auth finds the license expired, lines 926-930: the session is ended
\* without the user asking for it
Expire ==
  /\ LoggedIn
  /\ session_state' = [k \in (DOMAIN session_state) \cup {"expired_msg"} |->
                         IF k = "authenticated" THEN FALSE
                         ELSE IF k = "expired_msg" THEN "expired"
                         ELSE session_state[k]]
  /\ event' = [op |-> "expired", attempt |-> "none", value |-> None]
  /\ UNCHANGED << DB_CONFIG, db, opened >>

\* the calls of a session that reach the network are made while attempts remain
MayAttempt == opened.attempts < MaxConnects

NextSession ==
  \/ \E o \in OutcomesOf(DB_CONFIG) : StartSession(o) /\ UNCHANGED << dbvars, licvars, shvars >>
  \/ Login /\ UNCHANGED << dbvars, licvars, shvars >>
  \/ \E o \in OutcomesOf(DB_CONFIG), x \in ExecuteOutcomes :
       MayAttempt /\ PageQuery(o, x) /\ UNCHANGED << dbvars, licvars, shvars >>
  \/ \E o \in OutcomesOf(DB_CONFIG) : MayAttempt /\ Reconnect(o) /\ UNCHANGED << dbvars, licvars, shvars >>
  \/ Logout /\ UNCHANGED << dbvars, licvars, shvars >>
  \/ Expire /\ UNCHANGED << dbvars, licvars, shvars >>

SpecSession == InitSession /\ [][NextSession]_vars

\* C13: when a session ends, by logout or because check_auth ends it, the
\* tunnel and the database handle held for the session have been released:
\* close() would find nothing left to release on the connector of the
\* session, and no tunnel or handle that the session opened is left open.
C13_SessionEndReleases ==
  event.op \in {"logout", "expired"} =>
    /\ Close(Connector(db, opened)) = Connector(db, opened)
    /\ opened.tunnels = 0
    /\ opened.handles = 0

(***************************************************************************)
(* app.py: one DatabaseConnector and the calls of its methods, in any      *)
(* order.                                                                  *)
(***************************************************************************)
\* a connector just constructed, lines 52-55
InitConnector ==
  /\ DB_CONFIG \in {"empty", "ssh", "direct"}
  /\ db = [connection |-> None, tunnel |-> None, is_connected |-> FALSE]
  /\ session_state = << >>
  /\ opened = [tunnels |-> 0, handles |-> 0, attempts |-> 0]
  /\ event = [op |-> "none", attempt |-> "none", value |-> None]
  /\ NoDatabase
  /\ NoLicense
  /\ NoShared

\* db.initialize_from_secrets(), as the first run and the button "Reconnect
\* Database" call it
CallInitialize(outcome) ==
  /\ \E i \in {InitializeFromSecrets(Connector(db, opened), DB_CONFIG, outcome)} :
       /\ db' = i.self.db
       /\ opened' = i.self.opened
       /\ event' = [op |-> "initialize", attempt |-> Attempted(DB_CONFIG, outcome),
                    value |-> i.success]
  /\ UNCHANGED << DB_CONFIG, session_state >>

\* db.query(q)
CallConnectorQuery(outcome, execute) ==
  /\ \E q \in {ConnectorQuery(Connector(db, opened), DB_CONFIG, outcome, execute)} :
       /\ db' = q.self.db
       /\ opened' = q.self.opened
       /\ event' = [op |-> "query",
                    attempt |-> IF q.self.opened.attempts = opened.attempts THEN "none"
                                ELSE outcome,
                    value |-> q.value]
  /\ UNCHANGED << DB_CONFIG, session_state >>

\* db.close(); the event keeps the connector the call found
CallClose(closing, stopping) ==
  /\ db.connection = None => closing = "ok"
  /\ db.tunnel = None => stopping = "ok"
  /\ \E c \in {CloseWith(Connector(db, opened), closing, stopping)} :
       /\ db' = c.self.db
       /\ opened' = c.self.opened
       /\ event' = [op |-> "close", attempt |-> "none",
                    value |-> [before |-> Connector(db, opened), closing |-> closing,
                               stopping |-> stopping, calls |-> c.calls,
                               raised |-> c.raised]]
  /\ UNCHANGED << DB_CONFIG, session_state >>

\* query attempts only without a usable handle
QueryAsks(outcome) == (db.is_connected /\ db.connection # None) => outcome = "ok"

NextConnector ==
  \/ \E o \in OutcomesOf(DB_CONFIG) :
       MayAttempt /\ CallInitialize(o) /\ UNCHANGED << dbvars, licvars, shvars >>
  \/ \E o \in OutcomesOf(DB_CONFIG), x \in ExecuteOutcomes :
       /\ MayAttempt
       /\ QueryAsks(o)
       /\ CallConnectorQuery(o, x)
       /\ UNCHANGED << dbvars, licvars, shvars >>
  \/ \E closing \in ReleaseOutcomes, stopping \in ReleaseOutcomes :
       CallClose(closing, stopping) /\ UNCHANGED << dbvars, licvars, shvars >>

SpecConnector == InitConnector /\ [][NextConnector]_vars

\* the tunnels started and not stopped, and the handles opened and not
\* closed, that the connector references
ReferencedTunnels == IF db.tunnel = "started" THEN 1 ELSE 0

ReferencedHandles == IF db.connection = "open" THEN 1 ELSE 0

\* C29: in any sequence of initialize_from_secrets, query and close on one
\* connector, every tunnel that was started and every handle that was opened
\* is the one the connector references or has been stopped or closed:
\* connecting again while connected, or after a failed attempt, leaves no
\* earlier tunnel or handle open.
C29_NothingLeftOpen ==
  /\ opened.tunnels = ReferencedTunnels
  /\ opened.handles = ReferencedHandles

\* C30: close() calls connection.close() when there is a connection and
\* tunnel.stop() when there is a tunnel, also when connection.close() raised;
\* it raises nothing and ends with is_connected False; what was released
\* without error is no longer open.
C30_CloseReleasesBoth ==
  event.op = "close" =>
    LET before == event.value.before
        called == {event.value.calls[i] : i \in 1..Len(event.value.calls)}
    IN  /\ "connection.close" \in called <=> before.db.connection # None
        /\ "tunnel.stop" \in called <=> before.db.tunnel # None
        /\ event.value.calls \in {<< >>, <<"connection.close">>, <<"tunnel.stop">>,
                                   <<"connection.close", "tunnel.stop">>}
        /\ event.value.raised = None
        /\ db.is_connected = FALSE
        /\ event.value.closing = "ok" => db.connection # "open"
        /\ event.value.stopping = "ok" => db.tunnel # "started"
        /\ opened.handles = before.opened.handles
             - (IF before.db.connection = "open" /\ event.value.closing = "ok" THEN 1 ELSE 0)
        /\ opened.tunnels = before.opened.tunnels
             - (IF before.db.tunnel = "started" /\ event.value.stopping = "ok" THEN 1 ELSE 0)

\* close() found a connection and a tunnel, connection.close() raised, and
\* the tunnel was stopped
C30_Witness ==
  /\ event.op = "close"
  /\ event.value.before.db.connection = "open"
  /\ event.value.before.db.tunnel = "started"
  /\ event.value.closing = "raises"
  /\ event.value.calls = <<"connection.close", "tunnel.stop">>
  /\ db.tunnel = "stopped"
  /\ db.connection = "open"
  /\ ~db.is_connected

(***************************************************************************)
(* app.py: LicenseValidator.  A str is a sequence of code points, bytes    *)
(* are a sequence of numbers in 0..255.                                    *)
(***************************************************************************)
\* what stands for the bytes or the str of a call that raised: no bytes and
\* no str hold a negative number
Raised == << -1 >>

\* the printable ASCII characters, from code point 32 to 126 (the grave
\* accent, code point 96, is written by its name)
Ascii ==
  << " ", "!", "\"", "#", "$", "%", "&", "'", "(", ")", "*", "+", ",", "-", ".", "/",
     "0", "1", "2", "3", "4", "5", "6", "7", "8", "9", ":", ";", "<", "=", ">", "?",
     "@", "A", "B", "C", "D", "E", "F", "G", "H", "I", "J", "K", "L", "M", "N", "O",
     "P", "Q", "R", "S", "T", "U", "V", "W", "X", "Y", "Z", "[", "\\", "]", "^", "_",
     "grave", "a", "b", "c", "d", "e", "f", "g", "h", "i", "j", "k", "l", "m", "n", "o",
     "p", "q", "r", "s", "t", "u", "v", "w", "x", "y", "z", "{", "|", "}", "~" >>

\* ord(c) of a printable ASCII character
Ord(c) == 31 + CHOOSE i \in 1..Len(Ascii) : Ascii[i] = c

\* the str written as the sequence of its characters
Text(chars) == [i \in 1..Len(chars) |-> Ord(chars[i])]

RECURSIVE Concat(_)
\* "".join(texts)
Concat(texts) == IF texts = << >> THEN << >> ELSE Head(texts) \o Concat(Tail(texts))

\* c * n
Repeat(c, n) == [i \in 1..n |-> c]

\* the characters \s matches in a str pattern
IsSpace(c) ==
  \/ c \in 9..13 \/ c \in 28..32 \/ c \in {133, 160, 5760, 8232, 8233, 8239, 8287, 12288}
  \/ c \in 8192..8202

\* the characters [A-Za-z0-9+/=] matches
IsKeyChar(c) == c \in 65..90 \/ c \in 97..122 \/ c \in 48..57 \/ c \in {43, 47, 61}

NotSpace(c) == ~IsSpace(c)

CleanKeyOfSpaces(key) ==
  IF key = << >> THEN << >> ELSE SelectSeq(key, NotSpace)

\* LicenseValidator._clean_key
CleanKey(key) ==
  IF key = << >> THEN << >>
  ELSE SelectSeq(SelectSeq(key, NotSpace), IsKeyChar)

\* lines 244-246: pad to a multiple of 4
PadKey(key) ==
  LET padding == 4 - (Len(key) % 4)
  IN  IF padding # 4 THEN key \o Repeat(61, padding) ELSE key

\* binascii's table_a2b_base64: the 6 bits of a character, 64 for the others
B64Value(c) ==
  IF c \in 65..90 THEN c - 65
  ELSE IF c \in 97..122 THEN c - 71
  ELSE IF c \in 48..57 THEN c + 4
  ELSE IF c = 43 THEN 62
  ELSE IF c = 47 THEN 63
  ELSE 64

RECURSIVE A2bBase64(_, _, _, _, _, _)
\* binascii.a2b_base64 without strict_mode, from character i of data on:
\* quad_pos, leftchar and pads are the decoder's registers, bin the bytes
\* written so far.  The result is the bytes, or Raised for binascii.Error.
A2bBase64(data, i, quad_pos, leftchar, pads, bin) ==
  IF i > Len(data) THEN (IF quad_pos # 0 THEN Raised ELSE bin)
  ELSE IF data[i] = 61 THEN
    IF quad_pos >= 2 /\ quad_pos + pads + 1 >= 4 THEN bin
    ELSE A2bBase64(data, i + 1, quad_pos, leftchar,
                   IF quad_pos >= 2 THEN pads + 1 ELSE pads, bin)
  ELSE IF B64Value(data[i]) >= 64 THEN A2bBase64(data, i + 1, quad_pos, leftchar, pads, bin)
  ELSE
    LET this_ch == B64Value(data[i])
    IN  CASE quad_pos = 0 -> A2bBase64(data, i + 1, 1, this_ch, 0, bin)
          [] quad_pos = 1 ->
               A2bBase64(data, i + 1, 2, this_ch % 16, 0,
                         Append(bin, leftchar * 4 + this_ch \div 16))
          [] quad_pos = 2 ->
               A2bBase64(data, i + 1, 3, this_ch % 4, 0,
                         Append(bin, leftchar * 16 + this_ch \div 4))
          [] OTHER ->
               A2bBase64(data, i + 1, 0, 0, 0, Append(bin, leftchar * 64 + this_ch))

\* base64.b64decode(s)
B64Decode(s) == A2bBase64(s, 1, 0, 0, 0, << >>)

IsContinuation(bytes, i) == i <= Len(bytes) /\ bytes[i] \in 128..191

RECURSIVE AsciiDecode(_, _, _)
\* bytes.decode('ascii')
AsciiDecode(bytes, i, text) ==
  IF i > Len(bytes) THEN text
  ELSE IF bytes[i] < 128 THEN AsciiDecode(bytes, i + 1, Append(text, bytes[i]))
  ELSE Raised

RECURSIVE Utf8Decode(_, _, _)
\* bytes.decode('utf-8') from byte i on: the str, or Raised for
\* UnicodeDecodeError
Utf8Decode(bytes, i, text) ==
  IF i > Len(bytes) THEN text
  ELSE
    LET b == bytes[i]
    IN  IF b < 128 THEN Utf8Decode(bytes, i + 1, Append(text, b))
        ELSE IF b \in 194..223 /\ IsContinuation(bytes, i + 1) THEN
          Utf8Decode(bytes, i + 2, Append(text, (b - 192) * 64 + (bytes[i + 1] - 128)))
        ELSE IF /\ b \in 224..239
                /\ IsContinuation(bytes, i + 1) /\ IsContinuation(bytes, i + 2)
                /\ b = 224 => bytes[i + 1] >= 160
                /\ b = 237 => bytes[i + 1] <= 159 THEN
          Utf8Decode(bytes, i + 3,
                     Append(text, (b - 224) * 4096 + (bytes[i + 1] - 128) * 64
                                    + (bytes[i + 2] - 128)))
        ELSE IF /\ b \in 240..244
                /\ IsContinuation(bytes, i + 1) /\ IsContinuation(bytes, i + 2)
                /\ IsContinuation(bytes, i + 3)
                /\ b = 240 => bytes[i + 1] >= 144
                /\ b = 244 => bytes[i + 1] <= 143 THEN
          Utf8Decode(bytes, i + 4,
                     Append(text, (b - 240) * 262144 + (bytes[i + 1] - 128) * 4096
                                    + (bytes[i + 2] - 128) * 64 + (bytes[i + 3] - 128)))
        ELSE Raised

RECURSIVE Split(_, _)
\* text.split(sep) for a separator of one character
Split(text, sep) ==
  IF \A i \in 1..Len(text) : text[i] # sep THEN << text >>
  ELSE LET k == CHOOSE i \in 1..Len(text) :
                  text[i] = sep /\ \A j \in 1..(i - 1) : text[j] # sep
       IN  << SubSeq(text, 1, k - 1) >> \o Split(SubSeq(text, k + 1, Len(text)), sep)

\* c in text
In(c, text) == \E i \in 1..Len(text) : text[i] = c

(***************************************************************************)
(* datetime: a record of calendar fields.                                  *)
(***************************************************************************)
Datetime(Y, M, D, h, m, sec, us) ==
  [year |-> Y, month |-> M, day |-> D, hour |-> h, minute |-> m, second |-> sec,
   microsecond |-> us]

IsLeap(Y) == Y % 4 = 0 /\ (Y % 100 # 0 \/ Y % 400 = 0)

DaysInMonth(Y, M) ==
  IF M = 2 THEN (IF IsLeap(Y) THEN 29 ELSE 28)
  ELSE IF M \in {4, 6, 9, 11} THEN 30 ELSE 31

RECURSIVE DaysBeforeMonth(_, _)
DaysBeforeMonth(Y, M) == IF M = 1 THEN 0 ELSE DaysBeforeMonth(Y, M - 1) + DaysInMonth(Y, M - 1)

\* date.toordinal()
Ordinal(dt) ==
  LET y == dt.year - 1
  IN  y * 365 + y \div 4 - y \div 100 + y \div 400 + DaysBeforeMonth(dt.year, dt.month) + dt.day

SecondOfDay(dt) == dt.hour * 3600 + dt.minute * 60 + dt.second

AfterNever(a, b) == FALSE

AfterOrAt(a, b) ==
  LET x == << Ordinal(a), SecondOfDay(a), a.microsecond >>
      y == << Ordinal(b), SecondOfDay(b), b.microsecond >>
  IN  x = y \/ \E i \in 1..3 : x[i] > y[i] /\ \A j \in 1..(i - 1) : x[j] = y[j]

\* a > b for two datetimes
After(a, b) ==
  LET x == << Ordinal(a), SecondOfDay(a), a.microsecond >>
      y == << Ordinal(b), SecondOfDay(b), b.microsecond >>
  IN  \E i \in 1..3 : x[i] > y[i] /\ \A j \in 1..(i - 1) : x[j] = y[j]

DeltaDaysSwapped(a, b) ==
  LET days == Ordinal(b) - Ordinal(a)
      borrow == \/ SecondOfDay(b) < SecondOfDay(a)
                \/ SecondOfDay(b) = SecondOfDay(a) /\ b.microsecond < a.microsecond
  IN  IF borrow THEN days - 1 ELSE days

\* (a - b).days: the timedelta is normalised to 0 <= seconds, microseconds
DeltaDays(a, b) ==
  LET days == Ordinal(a) - Ordinal(b)
      borrow == \/ SecondOfDay(a) < SecondOfDay(b)
                \/ SecondOfDay(a) = SecondOfDay(b) /\ a.microsecond < b.microsecond
  IN  IF borrow THEN days - 1 ELSE days

IsDigit(c) == c \in Ord("0")..Ord("9")

RECURSIVE ParseInt(_)
\* int(text) of a text of ASCII digits
ParseInt(text) ==
  IF text = << >> THEN 0
  ELSE 10 * ParseInt(SubSeq(text, 1, Len(text) - 1)) + (text[Len(text)] - Ord("0"))

\* the fields "%Y%m%d%H%M%S" finds in a text of 14 characters
Fields(text) ==
  Datetime(ParseInt(SubSeq(text, 1, 4)), ParseInt(SubSeq(text, 5, 6)), ParseInt(SubSeq(text, 7, 8)),
           ParseInt(SubSeq(text, 9, 10)), ParseInt(SubSeq(text, 11, 12)), ParseInt(SubSeq(text, 13, 14)), 0)

\* datetime.strptime(text, "%Y%m%d%H%M%S") returns for a text of 14
\* characters: each field is matched by two digits and datetime accepts them
StrptimeOk(text) ==
  /\ \A i \in 1..Len(text) : IsDigit(text[i])
  /\ LET f == Fields(text)
     IN  /\ f.year \in 1..9999
         /\ f.month \in 1..12
         /\ f.day \in 1..DaysInMonth(f.year, f.month)
         /\ f.hour \in 0..23
         /\ f.minute \in 0..59
         /\ f.second \in 0..59

RECURSIVE Digits(_)
\* str(n) for n >= 0
Digits(n) ==
  IF n < 10 THEN << Ord("0") + n >> ELSE Append(Digits(n \div 10), Ord("0") + (n % 10))

\* n written with at least width digits
ZeroPadded(n, width) ==
  LET d == Digits(n)
  IN  IF Len(d) < width THEN Repeat(Ord("0"), width - Len(d)) \o d ELSE d

MonthNames ==
  << <<"J", "a", "n", "u", "a", "r", "y">>, <<"F", "e", "b", "r", "u", "a", "r", "y">>,
     <<"M", "a", "r", "c", "h">>, <<"A", "p", "r", "i", "l">>, <<"M", "a", "y">>,
     <<"J", "u", "n", "e">>, <<"J", "u", "l", "y">>, <<"A", "u", "g", "u", "s", "t">>,
     <<"S", "e", "p", "t", "e", "m", "b", "e", "r">>, <<"O", "c", "t", "o", "b", "e", "r">>,
     <<"N", "o", "v", "e", "m", "b", "e", "r">>, <<"D", "e", "c", "e", "m", "b", "e", "r">> >>

\* expiry.strftime('%d %B %Y')
Strftime(dt) ==
  ZeroPadded(dt.day, 2) \o Text(<<" ">>) \o Text(MonthNames[dt.month]) \o Text(<<" ">>)
    \o Digits(dt.year)

(***************************************************************************)
(* LicenseValidator.validate                                               *)
(***************************************************************************)
MinKeyLength == 20
ExpiryLength == 14
SignatureLength == 8

\* SECRET_KEY, the default of lines 20 and 38
SECRET_KEY ==
  Text(<<"k", "l", "i", "n", "k", "2", "0", "2", "4", "s", "e", "c", "u", "r", "e">>)

\* hashlib.md5(text.encode()).hexdigest() of the texts the validator hashes
\* in this model, as computed by hashlib
Md5Table ==
  << \* a@b.c|20270101000000klink2024secure
     [text |-> <<97, 64, 98, 46, 99, 124, 50, 48, 50, 55, 48, 49, 48, 49, 48, 48, 48, 48, 48, 48, 107, 108, 105, 110, 107, 50, 48, 50, 52, 115, 101, 99, 117, 114, 101>>,
      hexdigest |-> <<51, 52, 57, 98, 102, 97, 55, 50, 51, 101, 55, 55, 99, 55, 48, 97, 50, 54, 102, 53, 49, 102, 52, 98, 49, 50, 98, 49, 102, 50, 55, 51>>],
     \* a@b.c|20270101000000klink2025secure
     [text |-> <<97, 64, 98, 46, 99, 124, 50, 48, 50, 55, 48, 49, 48, 49, 48, 48, 48, 48, 48, 48, 107, 108, 105, 110, 107, 50, 48, 50, 53, 115, 101, 99, 117, 114, 101>>,
      hexdigest |-> <<102, 53, 101, 57, 101, 49, 98, 97, 102, 49, 97, 56, 99, 102, 99, 50, 54, 100, 53, 53, 48, 97, 98, 57, 99, 53, 102, 53, 48, 55, 100, 55>>],
     \* a@b.c|20240229235959klink2024secure
     [text |-> <<97, 64, 98, 46, 99, 124, 50, 48, 50, 52, 48, 50, 50, 57, 50, 51, 53, 57, 53, 57, 107, 108, 105, 110, 107, 50, 48, 50, 52, 115, 101, 99, 117, 114, 101>>,
      hexdigest |-> <<55, 53, 48, 54, 48, 49, 56, 98, 101, 97, 50, 98, 48, 48, 101, 52, 99, 48, 50, 98, 50, 101, 52, 54, 99, 51, 98, 56, 53, 101, 48, 52>>],
     \* a@b.c|20270230000000klink2024secure
     [text |-> <<97, 64, 98, 46, 99, 124, 50, 48, 50, 55, 48, 50, 51, 48, 48, 48, 48, 48, 48, 48, 107, 108, 105, 110, 107, 50, 48, 50, 52, 115, 101, 99, 117, 114, 101>>,
      hexdigest |-> <<53, 98, 48, 52, 99, 49, 55, 51, 50, 98, 54, 97, 52, 55, 99, 55, 99, 54, 49, 98, 100, 57, 55, 49, 52, 48, 51, 100, 98, 57, 100, 52>>],
     \* a@b.c|2027010100000klink2024secure
     [text |-> <<97, 64, 98, 46, 99, 124, 50, 48, 50, 55, 48, 49, 48, 49, 48, 48, 48, 48, 48, 107, 108, 105, 110, 107, 50, 48, 50, 52, 115, 101, 99, 117, 114, 101>>,
      hexdigest |-> <<102, 98, 55, 49, 98, 51, 51, 56, 51, 51, 54, 100, 49, 53, 53, 57, 97, 52, 48, 99, 55, 101, 97, 54, 56, 49, 102, 57, 56, 49, 56, 50>>],
     \* a@b.c|2027010100000xklink2024secure
     [text |-> <<97, 64, 98, 46, 99, 124, 50, 48, 50, 55, 48, 49, 48, 49, 48, 48, 48, 48, 48, 120, 107, 108, 105, 110, 107, 50, 48, 50, 52, 115, 101, 99, 117, 114, 101>>,
      hexdigest |-> <<101, 98, 100, 102, 57, 49, 56, 53, 50, 102, 49, 56, 101, 48, 57, 102, 97, 57, 52, 52, 51, 100, 57, 98, 56, 49, 50, 101, 97, 97, 51, 57>>],
     \* ab.c|20270101000000klink2024secure
     [text |-> <<97, 98, 46, 99, 124, 50, 48, 50, 55, 48, 49, 48, 49, 48, 48, 48, 48, 48, 48, 107, 108, 105, 110, 107, 50, 48, 50, 52, 115, 101, 99, 117, 114, 101>>,
      hexdigest |-> <<51, 99, 55, 101, 55, 102, 99, 101, 48, 56, 53, 51, 102, 97, 54, 99, 54, 97, 55, 56, 98, 55, 48, 56, 52, 102, 48, 98, 49, 55, 102, 48>>],
     \* ab.c|20240229235959klink2024secure
     [text |-> <<97, 98, 46, 99, 124, 50, 48, 50, 52, 48, 50, 50, 57, 50, 51, 53, 57, 53, 57, 107, 108, 105, 110, 107, 50, 48, 50, 52, 115, 101, 99, 117, 114, 101>>,
      hexdigest |-> <<54, 98, 51, 98, 98, 54, 50, 49, 53, 102, 55, 101, 102, 98, 100, 49, 102, 49, 49, 97, 102, 99, 49, 99, 101, 49, 53, 101, 51, 52, 49, 50>>],
     \* ab.c|20270230000000klink2024secure
     [text |-> <<97, 98, 46, 99, 124, 50, 48, 50, 55, 48, 50, 51, 48, 48, 48, 48, 48, 48, 48, 107, 108, 105, 110, 107, 50, 48, 50, 52, 115, 101, 99, 117, 114, 101>>,
      hexdigest |-> <<50, 48, 49, 102, 98, 101, 54, 48, 101, 99, 55, 50, 50, 102, 55, 48, 54, 55, 51, 49, 48, 53, 54, 54, 51, 99, 48, 56, 53, 51, 98, 55>>],
     \* ab.c|2027010100000klink2024secure
     [text |-> <<97, 98, 46, 99, 124, 50, 48, 50, 55, 48, 49, 48, 49, 48, 48, 48, 48, 48, 107, 108, 105, 110, 107, 50, 48, 50, 52, 115, 101, 99, 117, 114, 101>>,
      hexdigest |-> <<55, 101, 52, 97, 99, 49, 102, 55, 101, 51, 53, 48, 48, 57, 97, 101, 56, 51, 99, 48, 57, 98, 101, 100, 102, 57, 56, 52, 50, 52, 49, 100>>],
     \* ab.c|2027010100000xklink2024secure
     [text |-> <<97, 98, 46, 99, 124, 50, 48, 50, 55, 48, 49, 48, 49, 48, 48, 48, 48, 48, 120, 107, 108, 105, 110, 107, 50, 48, 50, 52, 115, 101, 99, 117, 114, 101>>,
      hexdigest |-> <<51, 50, 48, 98, 98, 55, 56, 51, 99, 55, 51, 101, 102, 56, 53, 101, 56, 57, 102, 97, 50, 101, 56, 55, 54, 54, 48, 97, 101, 97, 48, 49>>],
     \* a@bc|20270101000000klink2024secure
     [text |-> <<97, 64, 98, 99, 124, 50, 48, 50, 55, 48, 49, 48, 49, 48, 48, 48, 48, 48, 48, 107, 108, 105, 110, 107, 50, 48, 50, 52, 115, 101, 99, 117, 114, 101>>,
      hexdigest |-> <<99, 100, 57, 98, 102, 100, 101, 57, 56, 101, 100, 57, 51, 56, 99, 102, 50, 51, 52, 50, 53, 102, 54, 48, 57, 52, 49, 51, 57, 99, 100, 56>>],
     \* a@bc|20240229235959klink2024secure
     [text |-> <<97, 64, 98, 99, 124, 50, 48, 50, 52, 48, 50, 50, 57, 50, 51, 53, 57, 53, 57, 107, 108, 105, 110, 107, 50, 48, 50, 52, 115, 101, 99, 117, 114, 101>>,
      hexdigest |-> <<48, 98, 48, 55, 57, 55, 53, 57, 97, 54, 55, 56, 53, 57, 98, 101, 56, 101, 56, 54, 53, 56, 54, 56, 50, 101, 57, 101, 50, 57, 101, 98>>],
     \* a@bc|20270230000000klink2024secure
     [text |-> <<97, 64, 98, 99, 124, 50, 48, 50, 55, 48, 50, 51, 48, 48, 48, 48, 48, 48, 48, 107, 108, 105, 110, 107, 50, 48, 50, 52, 115, 101, 99, 117, 114, 101>>,
      hexdigest |-> <<101, 100, 97, 48, 99, 100, 52, 57, 57, 100, 56, 51, 57, 102, 50, 99, 52, 54, 100, 52, 97, 101, 55, 51, 102, 98, 49, 97, 102, 48, 54, 51>>],
     \* a@bc|2027010100000klink2024secure
     [text |-> <<97, 64, 98, 99, 124, 50, 48, 50, 55, 48, 49, 48, 49, 48, 48, 48, 48, 48, 107, 108, 105, 110, 107, 50, 48, 50, 52, 115, 101, 99, 117, 114, 101>>,
      hexdigest |-> <<56, 54, 50, 100, 52, 53, 99, 99, 54, 97, 49, 101, 98, 53, 52, 53, 51, 102, 101, 98, 102, 54, 52, 100, 54, 49, 56, 48, 98, 99, 98, 48>>],
     \* a@bc|2027010100000xklink2024secure
     [text |-> <<97, 64, 98, 99, 124, 50, 48, 50, 55, 48, 49, 48, 49, 48, 48, 48, 48, 48, 120, 107, 108, 105, 110, 107, 50, 48, 50, 52, 115, 101, 99, 117, 114, 101>>,
      hexdigest |-> <<48, 57, 98, 54, 100, 49, 50, 49, 99, 56, 97, 55, 55, 101, 100, 48, 98, 97, 97, 55, 56, 101, 54, 54, 56, 57, 51, 100, 49, 56, 51, 52>>],
     \* e-acute@b.c|20270101000000klink2024secure
     [text |-> <<233, 64, 98, 46, 99, 124, 50, 48, 50, 55, 48, 49, 48, 49, 48, 48, 48, 48, 48, 48, 107, 108, 105, 110, 107, 50, 48, 50, 52, 115, 101, 99, 117, 114, 101>>,
      hexdigest |-> <<101, 54, 50, 49, 102, 57, 51, 51, 100, 49, 97, 51, 97, 99, 50, 49, 52, 51, 97, 52, 56, 49, 48, 57, 100, 98, 51, 99, 102, 97, 55, 52>>],
     \* e-acute@b.c|20240229235959klink2024secure
     [text |-> <<233, 64, 98, 46, 99, 124, 50, 48, 50, 52, 48, 50, 50, 57, 50, 51, 53, 57, 53, 57, 107, 108, 105, 110, 107, 50, 48, 50, 52, 115, 101, 99, 117, 114, 101>>,
      hexdigest |-> <<102, 49, 54, 54, 100, 102, 54, 55, 48, 99, 57, 97, 102, 54, 52, 50, 49, 100, 50, 100, 48, 50, 53, 53, 49, 101, 52, 51, 56, 56, 50, 54>>],
     \* e-acute@b.c|20270230000000klink2024secure
     [text |-> <<233, 64, 98, 46, 99, 124, 50, 48, 50, 55, 48, 50, 51, 48, 48, 48, 48, 48, 48, 48, 107, 108, 105, 110, 107, 50, 48, 50, 52, 115, 101, 99, 117, 114, 101>>,
      hexdigest |-> <<53, 56, 55, 98, 54, 48, 56, 56, 51, 53, 51, 102, 55, 99, 50, 99, 53, 102, 52, 100, 99, 101, 98, 50, 50, 50, 55, 101, 100, 100, 56, 49>>],
     \* e-acute@b.c|2027010100000klink2024secure
     [text |-> <<233, 64, 98, 46, 99, 124, 50, 48, 50, 55, 48, 49, 48, 49, 48, 48, 48, 48, 48, 107, 108, 105, 110, 107, 50, 48, 50, 52, 115, 101, 99, 117, 114, 101>>,
      hexdigest |-> <<102, 98, 56, 57, 99, 54, 48, 48, 49, 102, 100, 98, 49, 51, 98, 48, 52, 49, 56, 54, 48, 97, 53, 48, 53, 101, 53, 100, 50, 99, 56, 101>>],
     \* e-acute@b.c|2027010100000xklink2024secure
     [text |-> <<233, 64, 98, 46, 99, 124, 50, 48, 50, 55, 48, 49, 48, 49, 48, 48, 48, 48, 48, 120, 107, 108, 105, 110, 107, 50, 48, 50, 52, 115, 101, 99, 117, 114, 101>>,
      hexdigest |-> <<52, 102, 48, 99, 57, 56, 99, 50, 51, 101, 48, 52, 50, 51, 55, 53, 99, 55, 57, 51, 57, 99, 57, 55, 49, 50, 57, 56, 51, 56, 102, 51>>],
     \* a|@b.c|20270101000000klink2024secure
     [text |-> <<97, 124, 64, 98, 46, 99, 124, 50, 48, 50, 55, 48, 49, 48, 49, 48, 48, 48, 48, 48, 48, 107, 108, 105, 110, 107, 50, 48, 50, 52, 115, 101, 99, 117, 114, 101>>,
      hexdigest |-> <<49, 53, 56, 49, 50, 98, 54, 51, 49, 98, 57, 48, 101, 53, 48, 101, 99, 102, 102, 101, 99, 52, 98, 53, 57, 51, 101, 50, 99, 100, 53, 99>>],
     \* a|@b.c|20240229235959klink2024secure
     [text |-> <<97, 124, 64, 98, 46, 99, 124, 50, 48, 50, 52, 48, 50, 50, 57, 50, 51, 53, 57, 53, 57, 107, 108, 105, 110, 107, 50, 48, 50, 52, 115, 101, 99, 117, 114, 101>>,
      hexdigest |-> <<51, 57, 48, 99, 99, 52, 102, 55, 51, 102, 54, 102, 50, 97, 97, 56, 100, 97, 52, 55, 100, 54, 55, 102, 55, 100, 102, 51, 57, 52, 102, 97>>],
     \* a|@b.c|20270230000000klink2024secure
     [text |-> <<97, 124, 64, 98, 46, 99, 124, 50, 48, 50, 55, 48, 50, 51, 48, 48, 48, 48, 48, 48, 48, 107, 108, 105, 110, 107, 50, 48, 50, 52, 115, 101, 99, 117, 114, 101>>,
      hexdigest |-> <<98, 101, 99, 99, 57, 53, 99, 98, 97, 49, 52, 50, 57, 51, 52, 50, 102, 51, 50, 50, 102, 49, 56, 98, 101, 57, 56, 55, 54, 100, 48, 99>>],
     \* a|@b.c|2027010100000klink2024secure
     [text |-> <<97, 124, 64, 98, 46, 99, 124, 50, 48, 50, 55, 48, 49, 48, 49, 48, 48, 48, 48, 48, 107, 108, 105, 110, 107, 50, 48, 50, 52, 115, 101, 99, 117, 114, 101>>,
      hexdigest |-> <<98, 99, 99, 100, 57, 50, 99, 50, 48, 102, 53, 101, 55, 56, 57, 53, 56, 54, 48, 52, 48, 98, 52, 97, 97, 57, 48, 52, 49, 48, 51, 52>>],
     \* a|@b.c|2027010100000xklink2024secure
     [text |-> <<97, 124, 64, 98, 46, 99, 124, 50, 48, 50, 55, 48, 49, 48, 49, 48, 48, 48, 48, 48, 120, 107, 108, 105, 110, 107, 50, 48, 50, 52, 115, 101, 99, 117, 114, 101>>,
      hexdigest |-> <<48, 53, 50, 98, 97, 57, 99, 48, 55, 50, 55, 55, 102, 49, 48, 48, 102, 99, 50, 49, 102, 99, 51, 54, 57, 100, 99, 48, 52, 50, 56, 100>>] >>

\* hashlib.md5(text.encode()).hexdigest()[:8]
Md5Hex8(text) ==
  IF \E i \in 1..Len(Md5Table) : Md5Table[i].text = text
  THEN SubSeq(Md5Table[CHOOSE i \in 1..Len(Md5Table) : Md5Table[i].text = text].hexdigest,
              1, SignatureLength)
  ELSE Raised

NoDatetime == Datetime(0, 0, 0, 0, 0, 0, 0)

\* return False, message
Rejected(message, date) ==
  [valid |-> FALSE, message |-> message, date |-> date, email |-> << >>,
   expiry |-> NoDatetime, days_left |-> 0, license_key |-> << >>]

\* return True, {"email": ..., "expiry": ..., "days_left": ..., "license_key": ...}
Accepted(email, expiry, days_left, license_key) ==
  [valid |-> TRUE, message |-> "", date |-> << >>, email |-> email, expiry |-> expiry,
   days_left |-> days_left, license_key |-> license_key]

SignatureNeverDiffers(signature, expected) == FALSE

SignatureDiffersInLength(signature, expected) == Len(signature) # Len(expected)

SignatureDiffersAtStart(signature, expected) ==
  \E i \in 1..(SignatureLength \div 2) : i > Len(signature) \/ signature[i] # expected[i]

\* line 266: signature != expected
SignatureDiffers(signature, expected) == signature # expected

\* LicenseValidator.validate(license_key): now1 is what datetime.now() returns
\* at line 276 and now2 what it returns at line 279
Validate(license_key, now1, now2) ==
  LET cleaned == CleanKey(license_key)
  IN  IF cleaned = << >> \/ Len(cleaned) < MinKeyLength THEN
        Rejected("Invalid license key format", << >>)
      ELSE
        LET padded == PadKey(cleaned)
            bytes == B64Decode(padded)
            decoded == IF bytes = Raised THEN Raised ELSE Utf8Decode(bytes, 1, << >>)
            parts == Split(decoded, Ord("|"))
        IN  IF decoded = Raised THEN Rejected("Invalid license encoding", << >>)
            ELSE IF Len(parts) # 3 THEN Rejected("Invalid license format", << >>)
            ELSE
              LET email == parts[1]
                  expiry_str == parts[2]
                  signature == parts[3]
                  data == email \o Text(<<"|">>) \o expiry_str
                  expected == Md5Hex8(data \o SECRET_KEY)
              IN  IF ~In(Ord("@"), email) \/ ~In(Ord("."), email) THEN
                    Rejected("Invalid email in license", << >>)
                  ELSE IF SignatureDiffers(signature, expected) THEN
                    Rejected("License validation failed", << >>)
                  ELSE IF Len(expiry_str) # ExpiryLength THEN
                    Rejected("Invalid expiry format", << >>)
                  ELSE IF ~StrptimeOk(expiry_str) THEN
                    Rejected("Invalid expiry date", << >>)
                  ELSE
                    LET expiry == Fields(expiry_str)
                    IN  IF After(now1, expiry) THEN
                          Rejected("License expired on", Strftime(expiry))
                        ELSE Accepted(email, expiry, DeltaDays(expiry, now2), padded)

(***************************************************************************)
(* Minting: what the signing process does to build a key (hash, join,      *)
(* encode), the inverse of the decoding steps of validate.                 *)
(***************************************************************************)
RECURSIVE Utf8Encode(_)
\* text.encode('utf-8')
Utf8Encode(text) ==
  IF text = << >> THEN << >>
  ELSE
    LET c == Head(text)
        b == IF c < 128 THEN << c >>
             ELSE IF c < 2048 THEN << 192 + c \div 64, 128 + (c % 64) >>
             ELSE IF c < 65536 THEN
               << 224 + c \div 4096, 128 + ((c \div 64) % 64), 128 + (c % 64) >>
             ELSE << 240 + c \div 262144, 128 + ((c \div 4096) % 64),
                     128 + ((c \div 64) % 64), 128 + (c % 64) >>
    IN  b \o Utf8Encode(Tail(text))

\* binascii's table_b2a_base64
B64Char(v) ==
  IF v < 26 THEN 65 + v
  ELSE IF v < 52 THEN 71 + v
  ELSE IF v < 62 THEN v - 4
  ELSE IF v = 62 THEN 43 ELSE 47

RECURSIVE B64Encode(_)
\* base64.b64encode(bytes).decode()
B64Encode(bytes) ==
  IF bytes = << >> THEN << >>
  ELSE IF Len(bytes) = 1 THEN
    << B64Char(bytes[1] \div 4), B64Char((bytes[1] % 4) * 16), 61, 61 >>
  ELSE IF Len(bytes) = 2 THEN
    << B64Char(bytes[1] \div 4), B64Char((bytes[1] % 4) * 16 + bytes[2] \div 16),
       B64Char((bytes[2] % 16) * 4), 61 >>
  ELSE
    << B64Char(bytes[1] \div 4), B64Char((bytes[1] % 4) * 16 + bytes[2] \div 16),
       B64Char((bytes[2] % 16) * 4 + bytes[3] \div 64), B64Char(bytes[3] % 64) >>
      \o B64Encode(SubSeq(bytes, 4, Len(bytes)))

\* hashlib.md5(f"{email}|{expiry}{secret}".encode()).hexdigest()[:8]
Sign(email, expiry_str, secret) == Md5Hex8(email \o Text(<<"|">>) \o expiry_str \o secret)

\* the bytes of email|expiry|signature
Payload(email, expiry_str, signature) ==
  Utf8Encode(email \o Text(<<"|">>) \o expiry_str \o Text(<<"|">>) \o signature)

\* expiry.strftime("%Y%m%d%H%M%S")
ExpiryString(dt) ==
  ZeroPadded(dt.year, 4) \o ZeroPadded(dt.month, 2) \o ZeroPadded(dt.day, 2)
    \o ZeroPadded(dt.hour, 2) \o ZeroPadded(dt.minute, 2) \o ZeroPadded(dt.second, 2)

\* the key of (email, expiry) signed with secret
Mint(email, expiry_str, secret) ==
  B64Encode(Payload(email, expiry_str, Sign(email, expiry_str, secret)))

(***************************************************************************)
(* The keys a user presents and the instants at which they are validated.  *)
(***************************************************************************)
GoodEmail == Text(<<"a", "@", "b", ".", "c">>)

\* e-acute@b.c: two bytes in UTF-8
NonAsciiEmail == << 233 >> \o Text(<<"@", "b", ".", "c">>)

\* a|@b.c: the separator of the fields inside the email
PipeEmail == Text(<<"a", "|", "@", "b", ".", "c">>)

Emails ==
  {GoodEmail, NonAsciiEmail, PipeEmail, Text(<<"a", "b", ".", "c">>), Text(<<"a", "@", "b", "c">>)}

Expiry == Datetime(2027, 1, 1, 0, 0, 0, 0)

PastExpiry == Datetime(2024, 2, 29, 23, 59, 59, 0)

\* two timestamps, a day that does not exist, 13 digits, and a letter
ExpiryStrings ==
  { ExpiryString(Expiry), ExpiryString(PastExpiry),
    ExpiryString(Datetime(2027, 2, 30, 0, 0, 0, 0)),
    SubSeq(ExpiryString(Expiry), 1, ExpiryLength - 1),
    SubSeq(ExpiryString(Expiry), 1, ExpiryLength - 1) \o Text(<<"x">>) }

\* the secret of another deployment
OtherSecret ==
  Text(<<"k", "l", "i", "n", "k", "2", "0", "2", "5", "s", "e", "c", "u", "r", "e">>)

\* the instants of the clock, in ascending order
Instants ==
  << PastExpiry,
     Datetime(2024, 2, 29, 23, 59, 59, 1),
     Datetime(2026, 12, 30, 12, 0, 0, 0),
     Datetime(2026, 12, 31, 0, 0, 0, 0),
     Expiry,
     Datetime(2027, 1, 1, 0, 0, 0, 1) >>

MintedKeys == {Mint(e, x, SECRET_KEY) : e \in Emails, x \in ExpiryStrings}

GoodKey == Mint(GoodEmail, ExpiryString(Expiry), SECRET_KEY)

PastKey == Mint(GoodEmail, ExpiryString(PastExpiry), SECRET_KEY)

ForgedKey == Mint(GoodEmail, ExpiryString(Expiry), OtherSecret)

NotPad(c) == c # Ord("=")

\* a key as users paste it: without its padding, broken over lines, between
\* quotes, followed by more text
PastedKeys ==
  { SelectSeq(GoodKey, NotPad),
    SubSeq(GoodKey, 1, 10) \o << 13, 10 >> \o SubSeq(GoodKey, 11, Len(GoodKey)) \o << 32 >>,
    Text(<<"\"">>) \o GoodKey \o Text(<<"\"", ".">>),
    GoodKey \o Text(<<"Q", "Q", "=", "=">>),
    GoodKey \o Text(<<"Q">>),
    SubSeq(GoodKey, 1, Len(GoodKey) - 4) }

\* the bytes an attacker writes over a byte of the signature
TamperBytes == {0, 10, Ord(" "), Ord("0"), Ord("g"), Ord("|"), 127, 128, 195, 224, 240, 255}

GoodPayload == Payload(GoodEmail, ExpiryString(Expiry),
                       Sign(GoodEmail, ExpiryString(Expiry), SECRET_KEY))

PastPayload == Payload(GoodEmail, ExpiryString(PastExpiry),
                       Sign(GoodEmail, ExpiryString(PastExpiry), SECRET_KEY))

\* payload with byte j of its signature, the last field, replaced by b
Tamper(payload, j, b) ==
  [payload EXCEPT ![Len(payload) - SignatureLength + j] = b]

TamperedPayloads ==
  { Tamper(p, j, b) : p \in {GoodPayload, PastPayload}, j \in 1..SignatureLength,
                      b \in TamperBytes } \ {GoodPayload, PastPayload}

TamperedKeys == {B64Encode(p) : p \in TamperedPayloads}

\* keys of two and of four fields
MisshapenKeys ==
  { B64Encode(Utf8Encode(GoodEmail \o Text(<<"|">>) \o ExpiryString(Expiry))),
    B64Encode(GoodPayload \o Utf8Encode(Text(<<"|", "x">>))) }

\* texts that are not keys
JunkKeys ==
  { << >>,
    Text(<<"n", "o", "t", "-", "a", "-", "r", "e", "a", "l", "-", "t", "o", "k", "e", "n">>),
    << 32, 9, 10 >>,
    Repeat(Ord("A"), MinKeyLength - 1),
    Repeat(Ord("A"), MinKeyLength),
    Repeat(Ord("A"), MinKeyLength + 1),
    Repeat(Ord("/"), MinKeyLength),
    Repeat(Ord("-"), MinKeyLength) \o SubSeq(GoodKey, 1, MinKeyLength - 1),
    SubSeq(GoodKey, 1, MinKeyLength - 1) }

\* keys that carry eight zeros where the signature belongs
UnsignedKeys ==
  { B64Encode(Payload(e, x, Repeat(Ord("0"), SignatureLength))) :
      e \in Emails, x \in ExpiryStrings }

\* texts a user who looks for a demo key tries
DemoKeys ==
  { Text(<<"D", "E", "M", "O">>),
    Text(<<"K", "L", "I", "N", "K", "-", "D", "E", "M", "O", "-", "L", "I", "C", "E", "N", "S", "E", "-", "K", "E", "Y", "-", "2", "0", "2", "4">>),
    Text(<<"D", "E", "M", "O", "-", "L", "I", "C", "E", "N", "S", "E", "-", "K", "E", "Y", "-", "F", "O", "R", "-", "K", "L", "I", "N", "K", "-", "D", "A", "S", "H", "B", "O", "A", "R", "D">>) }

Keys == MintedKeys \cup {ForgedKey} \cup PastedKeys \cup TamperedKeys \cup MisshapenKeys
          \cup JunkKeys \cup UnsignedKeys \cup DemoKeys

InitLicense ==
  /\ license_input \in Keys
  /\ clock \in 1..Len(Instants)
  /\ validation = NoValidation
  /\ accepted = NoValidation
  /\ NoDatabase
  /\ NoSession
  /\ NoShared

\* validator.validate(license_input), lines 610-611: elapsed instants pass
\* between the two readings of the clock
CallValidate(elapsed) ==
  /\ clock + elapsed <= Len(Instants)
  /\ \E r \in {Validate(license_input, Instants[clock], Instants[clock + elapsed])} :
       /\ validation' = [called |-> TRUE, now1 |-> clock, now2 |-> clock + elapsed, r |-> r]
       /\ accepted' = IF ~accepted.called /\ r.valid THEN validation' ELSE accepted
  /\ clock' = clock + elapsed
  /\ UNCHANGED license_input

\* time passes between two calls
Advance ==
  /\ clock < Len(Instants)
  /\ clock' = clock + 1
  /\ UNCHANGED << license_input, validation, accepted >>

NextLicense ==
  \/ \E elapsed \in {0, 1} : CallValidate(elapsed) /\ UNCHANGED << dbvars, appvars, shvars >>
  \/ Advance /\ UNCHANGED << dbvars, appvars, shvars >>

SpecLicense == InitLicense /\ [][NextLicense]_vars

(***************************************************************************)
(* Properties of LicenseValidator.validate.                                *)
(***************************************************************************)
\* the instant read at line 276 by the last call, as an index
Now1 == validation.now1

\* the index of the instant x
InstantOf(x) == CHOOSE i \in 1..Len(Instants) : Instants[i] = x

\* the text the presented key decodes to, or Raised
Decoded(key) ==
  LET bytes == B64Decode(PadKey(CleanKey(key)))
  IN  IF bytes = Raised THEN Raised ELSE Utf8Decode(bytes, 1, << >>)

\* the number of characters of key that belong to a key
KeyCharCount(key) == Cardinality({i \in 1..Len(key) : IsKeyChar(key[i])})

\* the emails of the model that have "@" and "." and the timestamps
WellFormedEmails == {e \in Emails : In(Ord("@"), e) /\ In(Ord("."), e)}

Timestamps == {Expiry, PastExpiry}

\* an expiry as the user reads it
Display(x) ==
  IF x = Expiry
  THEN Text(<<"0", "1", " ", "J", "a", "n", "u", "a", "r", "y", " ", "2", "0", "2", "7">>)
  ELSE Text(<<"2", "9", " ", "F", "e", "b", "r", "u", "a", "r", "y", " ", "2", "0", "2", "4">>)

AsciiTamperedKeys ==
  { B64Encode(Tamper(p, j, b)) : p \in {GoodPayload, PastPayload}, j \in 1..SignatureLength,
                                 b \in (TamperBytes \cap 0..127) \ {Ord("|")} }
    \ {GoodKey, PastKey}

\* C15, as claimed: a key in which one byte of the signature is replaced by
\* any different byte is rejected with the reason of a signature mismatch.
C15_TamperedIsSignatureMismatch ==
  (validation.called /\ license_input \in TamperedKeys) =>
    /\ ~validation.r.valid
    /\ validation.r.message = "License validation failed"

\* C15, amended: a key in which one byte of the signature is replaced by a
\* different ASCII byte other than "|" is rejected with the reason of a
\* signature mismatch, expired or not; replaced by "|" it is rejected with
\* the reason of the structure, and replaced by a byte above 127 with the
\* reason of the encoding.
C15_AsciiTamperedIsSignatureMismatch ==
  (validation.called /\ license_input \in TamperedKeys) =>
    /\ ~validation.r.valid
    /\ validation.r.message =
         IF license_input \in AsciiTamperedKeys THEN "License validation failed"
         ELSE IF Decoded(license_input) = Raised THEN "Invalid license encoding"
         ELSE "Invalid license format"

\* the tampered key of an expired license was rejected for its signature
C15_Witness ==
  /\ validation.called
  /\ license_input \in AsciiTamperedKeys
  /\ Split(Decoded(license_input), Ord("|"))[2] = ExpiryString(PastExpiry)
  /\ Now1 > InstantOf(PastExpiry)
  /\ validation.r.message = "License validation failed"

C17_RoundTripEveryEmail ==
  validation.called =>
    \A e \in WellFormedEmails, x \in Timestamps :
      (license_input = Mint(e, ExpiryString(x), SECRET_KEY) /\ Now1 <= InstantOf(x)) =>
        /\ validation.r.valid
        /\ validation.r.email = e
        /\ validation.r.expiry = x

\* C17, amended: the same for every email with "@" and "." and without "|".
C17_RoundTrip ==
  validation.called =>
    \A e \in WellFormedEmails, x \in Timestamps :
      (license_input = Mint(e, ExpiryString(x), SECRET_KEY) /\ Now1 <= InstantOf(x)) =>
        IF In(Ord("|"), e) THEN ~validation.r.valid
        ELSE /\ validation.r.valid
             /\ validation.r.email = e
             /\ validation.r.expiry = x
             /\ validation.r.license_key = license_input

\* the key of an email that is not ASCII was accepted at the instant of its expiry
C17_Witness ==
  /\ validation.called
  /\ license_input = Mint(NonAsciiEmail, ExpiryString(Expiry), SECRET_KEY)
  /\ Now1 = InstantOf(Expiry)
  /\ validation.r.valid
  /\ validation.r.email = NonAsciiEmail
  /\ validation.r.expiry = Expiry

\* C18, as claimed: a key that was accepted, validated again at any time not
\* after its expiry, is accepted again with the same identity: email, expiry
\* and days remaining.
C18_SameIdentityAgain ==
  (validation.called /\ accepted.called /\ Now1 <= InstantOf(accepted.r.expiry)) =>
    validation.r = accepted.r

\* C18, amended: a key that was accepted, validated again at any time not
\* after its expiry, is accepted again with the same email and expiry; the
\* days remaining are those of the time of the call, never more than at an
\* earlier call.
C18_SameEmailAndExpiryAgain ==
  (validation.called /\ accepted.called /\ Now1 <= InstantOf(accepted.r.expiry)) =>
    /\ validation.r.valid
    /\ validation.r.email = accepted.r.email
    /\ validation.r.expiry = accepted.r.expiry
    /\ validation.r.license_key = accepted.r.license_key
    /\ validation.r.days_left <= accepted.r.days_left
    /\ (validation.now2 = accepted.now2) => validation.r.days_left = accepted.r.days_left

\* a key was accepted again, later, with fewer days remaining
C18_Witness ==
  /\ validation.called
  /\ accepted.called
  /\ validation.now1 > accepted.now1
  /\ validation.r.valid
  /\ validation.r.email = accepted.r.email
  /\ validation.r.days_left < accepted.r.days_left

\* C19: every text that has fewer than 20 characters of a key (letters,
\* digits, "+", "/", "="), the empty text and not-a-real-token among them, is
\* rejected with the reason of a malformed key and no other, whatever it
\* would decode to.
C19_ShortIsMalformed ==
  (validation.called /\ KeyCharCount(license_input) < MinKeyLength) =>
    /\ ~validation.r.valid
    /\ validation.r.message = "Invalid license key format"

\* the first 19 characters of a good key, after 20 dashes, were rejected as malformed
C19_Witness ==
  /\ validation.called
  /\ license_input = Repeat(Ord("-"), MinKeyLength) \o SubSeq(GoodKey, 1, MinKeyLength - 1)
  /\ validation.r.message = "Invalid license key format"

\* the whole days from the instant of index j to the expiry x, rounded down
DaysFrom(j, x) ==
  IF x = Expiry THEN << 1036, 1036, 1, 1, 0, -1 >>[j]
  ELSE << 0, -1, -1035, -1036, -1037, -1037 >>[j]

FirstFailure(key, n) ==
  IF KeyCharCount(key) < MinKeyLength THEN "Invalid license key format"
  ELSE IF Decoded(key) = Raised THEN "Invalid license encoding"
  ELSE
    LET parts == Split(Decoded(key), Ord("|"))
    IN  IF Len(parts) # 3 THEN "Invalid license format"
        ELSE IF ~(In(Ord("@"), parts[1]) /\ In(Ord("."), parts[1]))
          THEN "Invalid email in license"
        ELSE IF parts[3] # Sign(parts[1], parts[2], SECRET_KEY)
          THEN "License validation failed"
        ELSE IF Len(parts[2]) # ExpiryLength THEN "Invalid expiry format"
        ELSE IF \A x \in Timestamps : parts[2] # ExpiryString(x) THEN "Invalid expiry date"
        ELSE IF \E x \in Timestamps : parts[2] = ExpiryString(x) /\ n > InstantOf(x)
          THEN "License expired on"
        ELSE ""

\* C25: validate gives the reason of the first step that fails, in the order
\* cleaned length, decoding, three fields, email, signature, format of the
\* expiry, expiry not past; a key with a wrong signature and a malformed or
\* past expiry is rejected for its signature, and only a key with a right
\* signature is told its expiry date.
C25_FirstFailingStep ==
  validation.called =>
    /\ validation.r.message = FirstFailure(license_input, Now1)
    /\ validation.r.valid <=> FirstFailure(license_input, Now1) = ""
    /\ license_input \in UnsignedKeys =>
         /\ validation.r.message \in {"Invalid license format", "Invalid email in license",
                                      "License validation failed"}
         /\ validation.r.date = << >>
    /\ validation.r.date # << >> =>
         LET parts == Split(Decoded(license_input), Ord("|"))
         IN  parts[3] = Sign(parts[1], parts[2], SECRET_KEY)

\* a key without signature whose expiry is past was rejected for its
\* signature and was not told a date
C25_Witness ==
  /\ validation.called
  /\ license_input = B64Encode(Payload(GoodEmail, ExpiryString(PastExpiry),
                                       Repeat(Ord("0"), SignatureLength)))
  /\ Now1 > InstantOf(PastExpiry)
  /\ validation.r.message = "License validation failed"
  /\ validation.r.date = << >>

\* C28: with one caller and the clock at RateLimit seconds or more, after a
\* query that was not served from the cache the instance is in demo mode, or
\* it holds a handle and the value returned and cached is the one read from
\* the database: nothing synthesized is returned while is_demo() is False.
C28_MissIsDemoOrRead ==
  (ret.op = "query" /\ ret.path # "hit" /\ ret.raised = None /\ now >= RateLimit) =>
    \/ use_demo
    \/ /\ conn = "open"
       /\ ret.read = "ok"
       /\ ret.content.columns = <<"db_query", "db_value">>
       /\ heap[query_cache[Hash(ret.sql)].data].columns = <<"db_query", "db_value">>

\* at RateLimit seconds the first query opened the connection and returned
\* what it read, and the instance is not in demo mode
C28_Witness ==
  /\ ret.op = "query"
  /\ ret.path = "real"
  /\ ret.attempt = "ok"
  /\ now = RateLimit
  /\ ~use_demo
  /\ conn = "open"

(***************************************************************************)
(* database.py: the instance db of the module, used by several threads.    *)
(* A step is what a thread does between two places where the interpreter   *)
(* can switch threads and that reads or writes the instance at most once;  *)
(* every connection attempt and every read succeeds.  The calls are short: *)
(* the clock stands at one instant past the first seconds.                 *)
(***************************************************************************)
\* number of calls one caller makes
MaxCalls == 2

\* the position of key in the dict, or 0
IndexOf(cache, key) ==
  IF \E i \in 1..Len(cache) : cache[i].key = key
  THEN CHOOSE i \in 1..Len(cache) : cache[i].key = key
  ELSE 0

PutIfAbsent(cache, key, pair) ==
  IF IndexOf(cache, key) = 0
  THEN Append(cache, [key |-> key, data |-> pair.data, timestamp |-> pair.timestamp])
  ELSE cache

\* self.query_cache[key] = (data, timestamp): one store of the pair; a dict
\* keeps its keys in the order of their first insertion
Put(cache, key, pair) ==
  IF IndexOf(cache, key) = 0
  THEN Append(cache, [key |-> key, data |-> pair.data, timestamp |-> pair.timestamp])
  ELSE [cache EXCEPT ![IndexOf(cache, key)] =
          [key |-> key, data |-> pair.data, timestamp |-> pair.timestamp]]

\* del self.query_cache[key]
Del(cache, key) == SelectSeq(cache, LAMBDA e : e.key # key)

\* the tunnel or the handle that the call in progress of caller c creates
Made(c) == << c, threads[c].calls >>

\* db = SmartDatabase(), lines 10-47 and 263: the instance starts in demo
\* mode when the secrets could not be loaded
InitShared ==
  /\ instance \in [ use_ssh : BOOLEAN, tunnel : {None}, conn : {None}, use_demo : BOOLEAN,
                    last_query_time : {0}, query_cache : {<< >>} ]
  /\ threads = [c \in Callers |-> Idle(0, "none")]
  /\ network = [now |-> RateLimit, config_ok |-> ~instance.use_demo, started |-> {},
                open |-> {}, stores |-> << >>]
  /\ NoSession
  /\ NoLicense
  /\ NoDatabase

\* caller c goes on with the locals next
Goes(c, next) == threads' = [threads EXCEPT ![c] = next]

\* the call of caller c returns
Returns(c, path) == Goes(c, Idle(threads[c].calls, path))

\* the store of caller c into the cache and its record
Stored(c, cache, kind) ==
  LET t == threads[c]
  IN  Put(cache, Hash(t.sql), [data |-> << kind, c >>, timestamp |-> t.current_time])

Logged(c) == Append(network.stores, [key |-> Hash(threads[c].sql), by |-> c])

\* lines 108-109 of query: cache_key and current_time
BeginQuery(c, sql) ==
  /\ threads[c].pc = "idle"
  /\ threads[c].calls < MaxCalls
  /\ Goes(c, [Idle(threads[c].calls + 1, "none") EXCEPT
                !.pc = "lookup", !.op = "query", !.sql = sql, !.current_time = network.now])
  /\ UNCHANGED << instance, network >>

\* a caller calls connect() itself
BeginConnect(c) ==
  /\ threads[c].pc = "idle"
  /\ threads[c].calls < MaxCalls
  /\ Goes(c, [Idle(threads[c].calls + 1, "none") EXCEPT !.pc = "c_demo", !.op = "connect"])
  /\ UNCHANGED << instance, network >>

\* line 111: if cache_key in self.query_cache
Lookup(c) ==
  /\ threads[c].pc = "lookup"
  /\ Goes(c, [threads[c] EXCEPT !.pc =
        IF IndexOf(instance.query_cache, Hash(threads[c].sql)) # 0 THEN "entry" ELSE "mode"])
  /\ UNCHANGED << instance, network >>

\* lines 112-114: the entry is read; a key deleted since line 111 raises KeyError
Entry(c) ==
  /\ threads[c].pc = "entry"
  /\ LET i == IndexOf(instance.query_cache, Hash(threads[c].sql))
     IN  IF i = 0 THEN Returns(c, "raised")
         ELSE IF CacheFresh(threads[c].current_time, instance.query_cache[i].timestamp,
                            DefaultTtl)
         THEN Returns(c, "hit")
         ELSE Goes(c, [threads[c] EXCEPT !.pc = "mode"])
  /\ UNCHANGED << instance, network >>

\* line 117: if self.use_demo
Mode(c) ==
  /\ threads[c].pc = "mode"
  /\ Goes(c, [threads[c] EXCEPT !.pc = IF instance.use_demo THEN "demo" ELSE "need_conn"])
  /\ UNCHANGED << instance, network >>

\* lines 118-120: demo data is stored and returned
DemoStore(c) ==
  /\ threads[c].pc = "demo"
  /\ instance' = [instance EXCEPT !.query_cache = Stored(c, @, "demo")]
  /\ network' = [network EXCEPT !.stores = Logged(c)]
  /\ Returns(c, "demo")

\* line 124: if not self.conn
NeedConn(c) ==
  /\ threads[c].pc = "need_conn"
  /\ Goes(c, [threads[c] EXCEPT !.pc = IF instance.conn = None THEN "c_demo" ELSE "read"])
  /\ UNCHANGED << instance, network >>

\* connect returns to its caller
ConnectReturns(c) ==
  IF threads[c].op = "connect" THEN Returns(c, "connect")
  ELSE Goes(c, [threads[c] EXCEPT !.pc = "after_connect"])

\* lines 51-52 of connect
ConnectDemo(c) ==
  /\ threads[c].pc = "c_demo"
  /\ IF instance.use_demo THEN ConnectReturns(c)
     ELSE Goes(c, [threads[c] EXCEPT !.pc = "c_limit"])
  /\ UNCHANGED << instance, network >>

\* lines 55-58: the clock and self.last_query_time are read
ConnectLimit(c) ==
  /\ threads[c].pc = "c_limit"
  /\ IF RateLimited(network.now, instance.last_query_time) THEN ConnectReturns(c)
     ELSE Goes(c, [threads[c] EXCEPT !.pc = "c_stamp", !.connect_time = network.now])
  /\ UNCHANGED << instance, network >>

\* line 60: self.last_query_time = current_time
ConnectStamp(c) ==
  /\ threads[c].pc = "c_stamp"
  /\ instance' = [instance EXCEPT !.last_query_time = threads[c].connect_time]
  /\ Goes(c, [threads[c] EXCEPT !.pc = IF instance.use_ssh THEN "c_tunnel" ELSE "c_open"])
  /\ UNCHANGED network

\* lines 64-71: self.tunnel = SSHTunnelForwarder(...)
ConnectTunnel(c) ==
  /\ threads[c].pc = "c_tunnel"
  /\ instance' = [instance EXCEPT !.tunnel = Made(c)]
  /\ Goes(c, [threads[c] EXCEPT !.pc = "c_start"])
  /\ UNCHANGED network

\* lines 73-74: self.tunnel.start() starts the tunnel that self.tunnel names
\* now; a tunnel that is started already stays as it is
ConnectStart(c) ==
  /\ threads[c].pc = "c_start"
  /\ network' = [network EXCEPT !.started = @ \cup {instance.tunnel}]
  /\ Goes(c, [threads[c] EXCEPT !.pc = "c_open"])
  /\ UNCHANGED instance

\* lines 96-98: self.conn = pyodbc.connect(conn_str)
ConnectOpen(c) ==
  /\ threads[c].pc = "c_open"
  /\ network' = [network EXCEPT !.open = @ \cup {Made(c)}]
  /\ instance' = [instance EXCEPT !.conn = Made(c)]
  /\ ConnectReturns(c)

\* lines 126-129: if not self.conn, demo data is stored and returned
AfterConnect(c) ==
  /\ threads[c].pc = "after_connect"
  /\ IF instance.conn = None
     THEN /\ instance' = [instance EXCEPT !.query_cache = Stored(c, @, "demo")]
          /\ network' = [network EXCEPT !.stores = Logged(c)]
          /\ Returns(c, "synthesized")
     ELSE /\ Goes(c, [threads[c] EXCEPT !.pc = "read"])
          /\ UNCHANGED << instance, network >>

\* line 132: df = pd.read_sql(sql, self.conn)
Read(c) ==
  /\ threads[c].pc = "read"
  /\ Goes(c, [threads[c] EXCEPT !.pc = "store"])
  /\ UNCHANGED << instance, network >>

\* line 135: self.query_cache[cache_key] = (df.copy(), current_time)
StoreRead(c) ==
  /\ threads[c].pc = "store"
  /\ instance' = [instance EXCEPT !.query_cache = Stored(c, @, "read")]
  /\ network' = [network EXCEPT !.stores = Logged(c)]
  /\ Goes(c, [threads[c] EXCEPT !.pc = "clean"])

\* lines 151-154 of _clean_cache: the clock is read and the iterator over
\* self.query_cache.items() is made; it remembers the size of the dict
Clean(c) ==
  /\ threads[c].pc = "clean"
  /\ Goes(c, [threads[c] EXCEPT !.pc = "scan", !.connect_time = network.now,
                                !.it_size = Len(instance.query_cache), !.it_pos = 0,
                                !.expired = << >>])
  /\ UNCHANGED << instance, network >>

\* lines 154-156: the iterator gives the next item, or raises RuntimeError
\* when the dict has changed size since the iterator was made
Scan(c) ==
  /\ threads[c].pc = "scan"
  /\ LET t == threads[c]
         cache == instance.query_cache
     IN  IF Len(cache) # t.it_size THEN Goes(c, [t EXCEPT !.pc = "failed"])
         ELSE IF t.it_pos = t.it_size THEN Goes(c, [t EXCEPT !.pc = "purge"])
         ELSE Goes(c, [t EXCEPT !.it_pos = @ + 1,
                                !.expired = IF TooOld(t.connect_time,
                                                      cache[t.it_pos + 1].timestamp)
                                            THEN Append(@, cache[t.it_pos + 1].key)
                                            ELSE @])
  /\ UNCHANGED << instance, network >>

\* lines 158-159, then line 140: the expired keys are deleted; a key that is
\* gone raises KeyError
Purge(c) ==
  /\ threads[c].pc = "purge"
  /\ LET t == threads[c]
     IN  IF t.expired = << >> THEN Returns(c, "read") /\ UNCHANGED instance
         ELSE IF IndexOf(instance.query_cache, Head(t.expired)) = 0
         THEN Goes(c, [t EXCEPT !.pc = "failed"]) /\ UNCHANGED instance
         ELSE /\ instance' = [instance EXCEPT !.query_cache = Del(@, Head(t.expired))]
              /\ Goes(c, [t EXCEPT !.expired = Tail(@)])
  /\ UNCHANGED network

\* lines 142-147: except Exception
Failed(c) ==
  /\ threads[c].pc = "failed"
  /\ instance' = [instance EXCEPT !.use_demo = TRUE,
                                  !.query_cache = Stored(c, @, "demo")]
  /\ network' = [network EXCEPT !.stores = Logged(c)]
  /\ Returns(c, "failed")

NextShared ==
  \/ \E c \in Callers, sql \in Sqls : BeginQuery(c, sql) /\ UNCHANGED << dbvars, appvars, licvars >>
  \/ \E c \in Callers : BeginConnect(c) /\ UNCHANGED << dbvars, appvars, licvars >>
  \/ \E c \in Callers : Lookup(c) /\ UNCHANGED << dbvars, appvars, licvars >>
  \/ \E c \in Callers : Entry(c) /\ UNCHANGED << dbvars, appvars, licvars >>
  \/ \E c \in Callers : Mode(c) /\ UNCHANGED << dbvars, appvars, licvars >>
  \/ \E c \in Callers : DemoStore(c) /\ UNCHANGED << dbvars, appvars, licvars >>
  \/ \E c \in Callers : NeedConn(c) /\ UNCHANGED << dbvars, appvars, licvars >>
  \/ \E c \in Callers : ConnectDemo(c) /\ UNCHANGED << dbvars, appvars, licvars >>
  \/ \E c \in Callers : ConnectLimit(c) /\ UNCHANGED << dbvars, appvars, licvars >>
  \/ \E c \in Callers : ConnectStamp(c) /\ UNCHANGED << dbvars, appvars, licvars >>
  \/ \E c \in Callers : ConnectTunnel(c) /\ UNCHANGED << dbvars, appvars, licvars >>
  \/ \E c \in Callers : ConnectStart(c) /\ UNCHANGED << dbvars, appvars, licvars >>
  \/ \E c \in Callers : ConnectOpen(c) /\ UNCHANGED << dbvars, appvars, licvars >>
  \/ \E c \in Callers : AfterConnect(c) /\ UNCHANGED << dbvars, appvars, licvars >>
  \/ \E c \in Callers : Read(c) /\ UNCHANGED << dbvars, appvars, licvars >>
  \/ \E c \in Callers : StoreRead(c) /\ UNCHANGED << dbvars, appvars, licvars >>
  \/ \E c \in Callers : Clean(c) /\ UNCHANGED << dbvars, appvars, licvars >>
  \/ \E c \in Callers : Scan(c) /\ UNCHANGED << dbvars, appvars, licvars >>
  \/ \E c \in Callers : Purge(c) /\ UNCHANGED << dbvars, appvars, licvars >>
  \/ \E c \in Callers : Failed(c) /\ UNCHANGED << dbvars, appvars, licvars >>

SpecShared == InitShared /\ [][NextShared]_vars

(***************************************************************************)
(* Properties of the shared instance.                                      *)
(***************************************************************************)
\* the stores made for key, in the order they were made
StoresOf(key) == SelectSeq(network.stores, LAMBDA w : w.key = key)

AllIdle == \A c \in Callers : threads[c].pc = "idle"

\* C23: when two callers miss on the same key, both may read and both may
\* store; at every moment each entry of the cache is one whole pair of a
\* value and a timestamp under one key, there is one entry for a key, and the
\* entry of a key is the pair stored last for it: a reader finds no entry or
\* a whole pair.
C23_LastWriteWins ==
  LET cache == instance.query_cache
  IN  /\ \A i \in 1..Len(cache) :
           /\ DOMAIN cache[i] = {"key", "data", "timestamp"}
           /\ cache[i].data[1] \in {"read", "demo"}
           /\ cache[i].data[2] \in Callers
           /\ cache[i].timestamp = network.now
           /\ \A j \in 1..Len(cache) : cache[j].key = cache[i].key => j = i
           /\ StoresOf(cache[i].key) # << >>
      /\ \A k \in 1..Len(network.stores) :
           LET key == network.stores[k].key
               made == StoresOf(key)
           IN  /\ IndexOf(cache, key) # 0
               /\ cache[IndexOf(cache, key)].data[2] = made[Len(made)].by

\* both callers missed on one key, both read and both stored, and the entry
\* is the one of caller b, who stored last
C23_Witness ==
  /\ AllIdle
  /\ \A c \in Callers : threads[c].path = "read"
  /\ Len(network.stores) = 2
  /\ network.stores[1] = [key |-> Hash(SqlTexts[1]), by |-> "a"]
  /\ network.stores[2] = [key |-> Hash(SqlTexts[1]), by |-> "b"]
  /\ Len(instance.query_cache) = 1
  /\ instance.query_cache[1].data = << "read", "b" >>

\* C26: when the secrets were loaded and every connection attempt and every
\* read succeeds, the instance never enters demo mode and every call that has returned returned what was
\* read from the database, or a copy of it from the cache.
C26_SuccessNeverDemotes ==
  network.config_ok =>
    /\ ~instance.use_demo
    /\ \A c \in Callers : threads[c].path \in {"none", "hit", "read", "connect"}
    /\ \A i \in 1..Len(instance.query_cache) : instance.query_cache[i].data[1] = "read"

\* C27: at most one tunnel is started and at most one handle is opened, and
\* the instance references every tunnel that is started and every handle
\* that is open.
C27_OneAttemptAtATime ==
  /\ Cardinality(network.open) <= 1
  /\ Cardinality(network.started) <= 1
  /\ network.open \subseteq {instance.conn}
  /\ network.started \subseteq {instance.tunnel}


(***************************************************************************)
(* app.py: the authentication of one browser session.  Every run of the   *)
(* script calls main(), which calls check_auth() and shows the login page  *)
(* or the dashboard; a click on a button of the page shown starts the      *)
(* next run.                                                               *)
(***************************************************************************)
\* the keys a user presents at the login page; << >> is the empty text area
AuthKeys == {GoodKey, PastKey, ForgedKey, << >>}

\* st.session_state.authenticated is present and True
Authenticated(state) == "authenticated" \in DOMAIN state /\ state["authenticated"]

\* st.session_state.key = value
SetKey(state, key, value) ==
  [k \in (DOMAIN state) \cup {key} |-> IF k = key THEN value ELSE state[k]]

CheckAuthWithoutExpiry(state, t) ==
  LET s1 == IF "authenticated" \notin DOMAIN state
            THEN SetKey(state, "authenticated", FALSE) ELSE state
  IN  IF ~s1["authenticated"] THEN [state |-> s1, value |-> FALSE]
      ELSE IF "user_info" \notin DOMAIN s1
        THEN [state |-> SetKey(s1, "authenticated", FALSE), value |-> FALSE]
      ELSE [state |-> s1, value |-> TRUE]

\* main() up to the return of check_auth(), lines 1015-1019 and 912-931, with
\* datetime.now() the instant of index t
CheckAuth(state, t) ==
  LET s1 == IF "authenticated" \notin DOMAIN state
            THEN SetKey(state, "authenticated", FALSE) ELSE state
  IN  IF ~s1["authenticated"] THEN [state |-> s1, value |-> FALSE]
      ELSE IF "user_info" \notin DOMAIN s1
        THEN [state |-> SetKey(s1, "authenticated", FALSE), value |-> FALSE]
      ELSE IF After(Instants[t], s1["user_info"].expiry)
        THEN [state |-> SetKey(SetKey(s1, "authenticated", FALSE),
                               "expired_msg", "Your license has expired"),
              value |-> FALSE]
      ELSE [state |-> s1, value |-> TRUE]

\* the page the last run left on the screen: "none" before the first run,
\* "rerun" when the run ended in st.rerun()
Shown == IF event.op = "none" THEN "none" ELSE event.value.page

\* what a run of the script leaves in event: what check_auth returned, the
\* instant it read, the flag as it left it, the token accepted before
\* the run, and the page shown
RunEvent(op, c, page) ==
  [op |-> op, attempt |-> "none",
   value |-> [check_auth |-> c.value, now |-> clock, page |-> page,
              flag |-> c.state["authenticated"], token |-> accepted]]

InitAuth ==
  /\ license_input = << >>
  /\ clock \in 1..Len(Instants)
  /\ validation = NoValidation
  /\ accepted = NoValidation
  /\ DB_CONFIG = "empty"
  /\ db = [connection |-> None, tunnel |-> None, is_connected |-> FALSE]
  /\ session_state = << >>
  /\ opened = [tunnels |-> 0, handles |-> 0, attempts |-> 0]
  /\ event = [op |-> "none", attempt |-> "none", value |-> None]
  /\ NoDatabase
  /\ NoShared

\* a run of the script in which no button is clicked: the first run, a
\* rerun, a change of page
Rerun ==
  /\ \E c \in {CheckAuth(session_state, clock)} :
       /\ session_state' = c.state
       /\ event' = RunEvent("run", c, IF c.value THEN "dashboard" ELSE "login")
  /\ UNCHANGED << license_input, clock, validation, accepted >>

\* the run started by a click on VALIDATE LICENSE, lines 607-620: elapsed
\* instants pass between the two readings of the clock in validate
LoginAttempt(key, elapsed) ==
  /\ Shown = "login"
  /\ clock + elapsed <= Len(Instants)
  /\ key = << >> => elapsed = 0
  /\ license_input' = key
  /\ \E c \in {CheckAuth(session_state, clock)} :
       IF c.value \/ key = << >> THEN
         /\ session_state' = c.state
         /\ event' = RunEvent("login", c, IF c.value THEN "dashboard" ELSE "login")
         /\ UNCHANGED << clock, validation, accepted >>
       ELSE
         \E r \in {Validate(key, Instants[clock], Instants[clock + elapsed])} :
           /\ validation' = [called |-> TRUE, now1 |-> clock, now2 |-> clock + elapsed,
                             r |-> r]
           /\ accepted' = IF r.valid THEN validation' ELSE accepted
           /\ session_state' = IF r.valid
                               THEN SetKey(SetKey(c.state, "authenticated", TRUE),
                                           "user_info", r)
                               ELSE c.state
           /\ event' = RunEvent("login", c, IF r.valid THEN "rerun" ELSE "login")
           /\ clock' = clock + elapsed

\* the run started by a click on Logout, lines 994-999: the button is there
\* only when check_auth lets the dashboard be shown again
LogoutClick ==
  /\ Shown = "dashboard"
  /\ \E c \in {CheckAuth(session_state, clock)} :
       IF c.value THEN
         /\ session_state' = Delete(c.state, {"authenticated", "user_info",
                                              "db_connection", "current_page"})
         /\ accepted' = NoValidation
         /\ event' = RunEvent("logout", c, "rerun")
       ELSE
         /\ session_state' = c.state
         /\ accepted' = accepted
         /\ event' = RunEvent("logout", c, "login")
  /\ UNCHANGED << license_input, clock, validation >>

\* time passes between two runs
AdvanceAuth ==
  /\ clock < Len(Instants)
  /\ clock' = clock + 1
  /\ UNCHANGED << license_input, validation, accepted, session_state, event >>

NextAuth ==
  \/ Rerun /\ UNCHANGED << DB_CONFIG, db, opened, dbvars, shvars >>
  \/ \E key \in AuthKeys, elapsed \in {0, 1} :
       LoginAttempt(key, elapsed) /\ UNCHANGED << DB_CONFIG, db, opened, dbvars, shvars >>
  \/ LogoutClick /\ UNCHANGED << DB_CONFIG, db, opened, dbvars, shvars >>
  \/ AdvanceAuth /\ UNCHANGED << DB_CONFIG, db, opened, dbvars, shvars >>

SpecAuth == InitAuth /\ [][NextAuth]_vars

\* check_auth returned True only for a session in which validate accepted a
\* token that no logout followed, at an instant not after the token's expiry
TrueOnlyWhenAccepted ==
  (event.op # "none" /\ event.value.check_auth) =>
    /\ event.value.token.called
    /\ event.value.token.r.valid
    /\ event.value.now <= InstantOf(event.value.token.r.expiry)

\* check_auth called after the expiry of the accepted token returned False
\* and left the flag False
FalseAfterExpiry ==
  (/\ event.op # "none"
   /\ event.value.token.called
   /\ event.value.now > InstantOf(event.value.token.r.expiry)) =>
     /\ ~event.value.check_auth
     /\ ~event.value.flag
     /\ event.value.page # "dashboard"

\* the flag becomes True only in a run in which validate accepts the key
\* presented
TrueOnlyByAcceptance ==
  (~Authenticated(session_state) /\ Authenticated(session_state')) =>
    /\ event'.op = "login"
    /\ validation'.called
    /\ validation'.r.valid
    /\ validation'.now1 = clock
    /\ license_input' \in {GoodKey, PastKey}
    /\ validation'.now1 <= InstantOf(validation'.r.expiry)
    /\ accepted' = validation'
    /\ session_state'["user_info"].expiry = validation'.r.expiry

\* C31: in any sequence of login attempts, reruns, logouts and advances of
\* the clock in one session, check_auth returns True only if validate
\* accepted a token in the session since the last logout and the time is not
\* after that token's expiry; after the expiry the next check_auth returns
\* False and clears the flag, and the session stays unauthenticated until
\* validate accepts a token again.
C31_AuthFollowsAcceptedToken ==
  /\ [](TrueOnlyWhenAccepted /\ FalseAfterExpiry)
  /\ [][TrueOnlyByAcceptance]_vars

\* a session accepted at the instant of the key's expiry was ended by the
\* check_auth of a later run
C31_Witness ==
  /\ event.op = "run"
  /\ event.value.token.called
  /\ event.value.token.r.expiry = PastExpiry
  /\ event.value.now = 2
  /\ ~event.value.check_auth
  /\ ~Authenticated(session_state)
  /\ "user_info" \in DOMAIN session_state
  /\ "expired_msg" \in DOMAIN session_state

==========================================================================
